---------------------------- MODULE Spec2Model ----------------------------
(***************************************************************************)
(* Model of the vncencus-backend report pipeline: the three AI report      *)
(* endpoints (routes/aiPopulation.js, routes/aiUrbanRural.js,              *)
(* routes/aiInternet.js) and the Q&A endpoint (routes/chatbot.js).         *)
(*                                                                         *)
(* A JavaScript string is modelled as a text: a sequence of tokens.  The   *)
(* reply of the completion service is such a text, JSON.parse is a         *)
(* recursive-descent parser over it, and a JSON value is a tagged record.  *)
(***************************************************************************)
EXTENDS Integers, Sequences, FiniteSets, TLC

(***************************************************************************)
(* Tokens and texts                                                        *)
(***************************************************************************)
P(s) == [k |-> "punct", s |-> s]     \* one of { } [ ] : ,
L(s) == [k |-> "lit", s |-> s]       \* null, true, false
NumTok(v) == [k |-> "num", v |-> v]  \* a number literal, v its value
Q(x) == [k |-> "str", x |-> x]       \* a quoted string literal, x its text
W(s) == [k |-> "word", s |-> s]      \* a bare word (prose, a code fence)

\* the text that holds the single word s (a property name, a short string)
K(s) == <<W(s)>>

(***************************************************************************)
(* JSON values, as JSON.parse returns them and res.json serialises them    *)
(***************************************************************************)
JUndef == [t |-> "undef"]
JNull == [t |-> "null"]
JBool(b) == [t |-> "bool", b |-> b]
JNum(n) == [t |-> "num", n |-> n]    \* an integer
JRat(r) == [t |-> "num", r |-> r]    \* a non-integer number, r = <<num, den>>
JStr(x) == [t |-> "str", x |-> x]
JArr(a) == [t |-> "arr", a |-> a]
JObj(o) == [t |-> "obj", o |-> o]

EmptyObj == JObj([key \in {} |-> JUndef])

\* the object literal with the single property name: value
Prop(name, value) == [key \in {K(name)} |-> value]

\* o1 extended by o2 (o2 wins on a shared key); a property whose value is
\* undefined is dropped, as JSON.stringify drops it
Merge(o1, o2) ==
  LET keys == {key \in DOMAIN o1 \cup DOMAIN o2 :
                 (IF key \in DOMAIN o2 THEN o2[key] ELSE o1[key]) # JUndef}
  IN [key \in keys |-> IF key \in DOMAIN o2 THEN o2[key] ELSE o1[key]]


(***************************************************************************)
(* JavaScript property access on a JSON value                              *)
(***************************************************************************)
\* reading a property of null or undefined throws a TypeError
ThrowsOnAccess(v) == v.t \in {"null", "undef"}

\* v[name] for a value that is neither null nor undefined
GetProp(v, name) ==
  IF v.t = "obj" /\ K(name) \in DOMAIN v.o THEN v.o[K(name)] ELSE JUndef

\* v[name] = x.  The route modules are not in strict mode: the assignment is
\* silently dropped on a primitive, and on an array it creates a property
\* that JSON.stringify does not serialise.
SetProp(v, name, x) ==
  IF v.t = "obj" THEN JObj(Merge(v.o, Prop(name, x))) ELSE v

\* ToBoolean(v), as in !v and v || d
Truthy(v) ==
  CASE v.t \in {"undef", "null"} -> FALSE
    [] v.t = "bool" -> v.b
    [] v.t = "num" -> v # JNum(0)
    [] v.t = "str" -> v.x # <<>>
    [] OTHER -> TRUE

\* v || d
OrElse(v, d) == IF Truthy(v) THEN v ELSE d

(***************************************************************************)
(* JSON.stringify                                                          *)
(***************************************************************************)
\* NaN, the number Number(x) gives for a text x that is not numeric; no
\* count of the model is as low as the integer that stands for it
NaN == -1000000

\* JSON.stringify(v); it writes NaN as null
RECURSIVE JSONStringify(_)
RECURSIVE StringifyElems(_, _)
RECURSIVE StringifyMembers(_, _)

StringifyElems(a, i) ==
  IF i > Len(a) THEN <<>>
  ELSE (IF i > 1 THEN <<P(",")>> ELSE <<>>)
         \o JSONStringify(a[i]) \o StringifyElems(a, i + 1)

StringifyMembers(o, keys) ==
  IF keys = {} THEN <<>>
  ELSE LET key == CHOOSE c \in keys : TRUE
       IN (IF keys # DOMAIN o THEN <<P(",")>> ELSE <<>>)
            \o <<Q(key), P(":")>> \o JSONStringify(o[key])
            \o StringifyMembers(o, keys \ {key})

JSONStringify(v) ==
  CASE v.t = "null" -> <<L("null")>>
    [] v.t = "bool" -> <<L(IF v.b THEN "true" ELSE "false")>>
    [] v.t = "num" -> IF v = JNum(NaN) THEN <<L("null")>> ELSE <<NumTok(v)>>
    [] v.t = "str" -> <<Q(v.x)>>
    [] v.t = "arr" -> <<P("[")>> \o StringifyElems(v.a, 1) \o <<P("]")>>
    [] v.t = "obj" -> <<P("{")>> \o StringifyMembers(v.o, DOMAIN v.o) \o <<P("}")>>

(***************************************************************************)
(* JSON.parse: [ok |-> TRUE, v |-> value], or ok = FALSE for a SyntaxError *)
(***************************************************************************)
ParseFail == [ok |-> FALSE, v |-> JUndef, i |-> 0]

IsPunct(ts, i, s) == i <= Len(ts) /\ ts[i] = P(s)

RECURSIVE ParseValue(_, _)
RECURSIVE ParseElems(_, _, _)
RECURSIVE ParseMembers(_, _, _)

\* after "[" or ",": one element, then "," or "]"
ParseElems(ts, i, acc) ==
  LET r == ParseValue(ts, i)
  IN IF ~r.ok THEN ParseFail
     ELSE IF IsPunct(ts, r.i, ",") THEN ParseElems(ts, r.i + 1, Append(acc, r.v))
     ELSE IF IsPunct(ts, r.i, "]")
       THEN [ok |-> TRUE, v |-> JArr(Append(acc, r.v)), i |-> r.i + 1]
     ELSE ParseFail

\* after "{" or ",": one "key": value member, then "," or "}"; a repeated
\* key keeps its last value
ParseMembers(ts, i, acc) ==
  IF ~(i + 1 <= Len(ts) /\ ts[i].k = "str" /\ ts[i + 1] = P(":")) THEN ParseFail
  ELSE LET r == ParseValue(ts, i + 2)
           o == [key \in DOMAIN acc \cup {ts[i].x} |->
                   IF key = ts[i].x THEN r.v ELSE acc[key]]
       IN IF ~r.ok THEN ParseFail
          ELSE IF IsPunct(ts, r.i, ",") THEN ParseMembers(ts, r.i + 1, o)
          ELSE IF IsPunct(ts, r.i, "}")
            THEN [ok |-> TRUE, v |-> JObj(o), i |-> r.i + 1]
          ELSE ParseFail

ParseValue(ts, i) ==
  IF i > Len(ts) THEN ParseFail
  ELSE LET tok == ts[i]
       IN CASE tok.k = "lit" ->
                 [ok |-> TRUE, i |-> i + 1,
                  v |-> IF tok.s = "null" THEN JNull ELSE JBool(tok.s = "true")]
            [] tok.k = "num" -> [ok |-> TRUE, v |-> tok.v, i |-> i + 1]
            [] tok.k = "str" -> [ok |-> TRUE, v |-> JStr(tok.x), i |-> i + 1]
            [] tok = P("[") ->
                 IF IsPunct(ts, i + 1, "]")
                   THEN [ok |-> TRUE, v |-> JArr(<<>>), i |-> i + 2]
                   ELSE ParseElems(ts, i + 1, <<>>)
            [] tok = P("{") ->
                 IF IsPunct(ts, i + 1, "}")
                   THEN [ok |-> TRUE, v |-> EmptyObj, i |-> i + 2]
                   ELSE ParseMembers(ts, i + 1, [key \in {} |-> JUndef])
            [] OTHER -> ParseFail

JSONParse(ts) ==
  LET r == ParseValue(ts, 1)
  IN IF r.ok /\ r.i = Len(ts) + 1 THEN [ok |-> TRUE, v |-> r.v]
     ELSE [ok |-> FALSE, v |-> JUndef]

(***************************************************************************)
(* Numbers.  The aggregates are exact rationals <<num, den>> in lowest     *)
(* terms with den > 0; the code computes them in double precision.         *)
(***************************************************************************)
Abs(n) == IF n < 0 THEN -n ELSE n

RECURSIVE GCD(_, _)
GCD(a, b) == IF b = 0 THEN a ELSE GCD(b, a % b)

\* n / d, d > 0
Rat(n, d) == LET g == GCD(Abs(n), d) IN <<n \div g, d \div g>>

RatLess(a, b) == a[1] * b[2] < b[1] * a[2]
RatSub(a, b) == Rat(a[1] * b[2] - b[1] * a[2], a[2] * b[2])
RatAdd(a, b) == Rat(a[1] * b[2] + b[1] * a[2], a[2] * b[2])
Zero == <<0, 1>>

\* the JSON number of a rational
RatJson(r) == IF r[2] = 1 THEN JNum(r[1]) ELSE JRat(r)

RECURSIVE IntPow(_, _)
IntPow(b, e) == IF e = 0 THEN 1 ELSE b * IntPow(b, e - 1)

\* Math.pow(a / b, 1 / k) for a ratio whose k-th root is rational (the
\* trends of the model are chosen so)
RootOfRatio(a, b, k) ==
  LET q == Rat(a, b)
      rn == CHOOSE r \in 0..q[1] : IntPow(r, k) = q[1]
      rd == CHOOSE r \in 1..q[2] : IntPow(r, k) = q[2]
  IN Rat(rn, rd)

\* n * f cut to its integer part
FloorMul(n, f) == (n * f[1]) \div f[2]

\* Math.round(n * f) for an integer n >= 0 and a rational f >= 0
RoundMul(n, f) == (2 * n * f[1] + f[2]) \div (2 * f[2])

\* a + b of doubles
Plus(a, b) == IF a = NaN \/ b = NaN THEN NaN ELSE a + b

\* Number(row.field || 0).  A numeric field of a row holds its number; a
\* field that holds a text instead is kept under row.text: '' is falsy and
\* counts as 0, a text that is not numeric gives NaN.
Num0(row, field) ==
  IF field \in DOMAIN row THEN row[field]
  ELSE IF "text" \in DOMAIN row /\ field \in DOMAIN row.text
    THEN (IF row.text[field] = "" THEN 0 ELSE NaN)
  ELSE 0

\* The order in which a stable ascending sort visits keys[1..n]: index n
\* is inserted after every earlier index whose key is not greater.
RECURSIVE SortedIdx(_, _)
SortedIdx(keys, n) ==
  IF n = 0 THEN <<>>
  ELSE LET head == SortedIdx(keys, n - 1)
           pos == Cardinality({j \in 1..Len(head) : ~RatLess(keys[n], keys[head[j]])})
       IN SubSeq(head, 1, pos) \o <<n>> \o SubSeq(head, pos + 1, Len(head))

\* a sort that puts a row before the earlier rows of the same key
RECURSIVE LastFirstIdx(_, _)
LastFirstIdx(keys, n) ==
  IF n = 0 THEN <<>>
  ELSE LET head == LastFirstIdx(keys, n - 1)
           pos == Cardinality({j \in 1..Len(head) : RatLess(keys[head[j]], keys[n])})
       IN SubSeq(head, 1, pos) \o <<n>> \o SubSeq(head, pos + 1, Len(head))

UnstableSort(rows, keys) ==
  LET idx == LastFirstIdx(keys, Len(rows))
  IN [i \in 1..Len(rows) |-> rows[idx[i]]]

\* [...rows].sort((a, b) => key(a) - key(b)): Array.prototype.sort is stable
StableSort(rows, keys) ==
  LET idx == SortedIdx(keys, Len(rows))
  IN [i \in 1..Len(rows) |-> rows[idx[i]]]

Neg(r) == <<-r[1], r[2]>>

(***************************************************************************)
(* Aggregator: routes/aiPopulation.js                                      *)
(***************************************************************************)
YearKeys(rows) == [i \in 1..Len(rows) |-> <<rows[i].census_year, 1>>]

\* the loop of computeProjection: the entries for years i..projectionYears
RECURSIVE ProjectionSeries(_, _, _, _, _)
ProjectionSeries(prev, baseYear, factor, i, projectionYears) ==
  IF i > projectionYears THEN <<>>
  ELSE LET projected == RoundMul(prev, factor)
       IN <<JObj(Merge(Prop("year", JNum(baseYear + i)),
                       Prop("projected", JNum(projected))))>>
            \o ProjectionSeries(projected, baseYear, factor, i + 1, projectionYears)

\* computeProjection(trend, projectionYears): null, or the projection object
computeProjection(trend, projectionYears) ==
  IF Len(trend) < 2 THEN JNull
  ELSE LET t == StableSort(trend, YearKeys(trend))
           n == Len(t)
           first == Num0(t[1], "population")
           last == Num0(t[n], "population")
           diff == t[n].census_year - t[1].census_year
           yearsSpan == IF diff = 0 THEN 1 ELSE diff
           \* 1 + annualGrowthRate
           factor == IF first > 0 THEN RootOfRatio(last, first, yearsSpan) ELSE <<1, 1>>
           baseYear == t[n].census_year
           series == ProjectionSeries(last, baseYear, factor, 1, projectionYears)
       IN JObj(Merge(Merge(Merge(Merge(
            Prop("base_year", JNum(baseYear)),
            Prop("projection_years", JNum(projectionYears))),
            Prop("annual_growth_rate", RatJson(RatSub(factor, <<1, 1>>)))),
            Prop("projected_population",
                 IF series = <<>> THEN JNull
                 ELSE GetProp(series[Len(series)], "projected"))),
            Prop("series", JArr(series))))

(***************************************************************************)
(* Aggregator: routes/aiUrbanRural.js                                      *)
(***************************************************************************)
\* row.area_type || 'Khác'
AreaKey(row) ==
  IF "area_type" \in DOMAIN row /\ row.area_type # "" THEN row.area_type ELSE "Khac"

\* const groups = {}: the keys under which groups[key] is truthy before the
\* loop stores anything, inherited from Object.prototype
InheritedKeys ==
  {"constructor", "toString", "valueOf", "hasOwnProperty", "isPrototypeOf",
   "propertyIsEnumerable", "toLocaleString", "__proto__"}

\* The keys of groups, in the order the loop creates them.  if (!groups[key])
\* creates no group under an inherited key: the row's numbers are added to
\* the inherited value and to the totals, and Object.values(groups) does not
\* list it.
RECURSIVE GroupKeys(_)
GroupKeys(rows) ==
  IF rows = <<>> THEN <<>>
  ELSE LET n == Len(rows)
           head == GroupKeys(SubSeq(rows, 1, n - 1))
       IN IF \/ \E i \in 1..Len(head) : head[i] = AreaKey(rows[n])
             \/ AreaKey(rows[n]) \in InheritedKeys
            THEN head
            ELSE Append(head, AreaKey(rows[n]))

RECURSIVE SumField(_, _)
SumField(rows, field) ==
  IF rows = <<>> THEN 0
  ELSE Plus(Num0(rows[1], field), SumField(Tail(rows), field))

\* totalPop ? (part / totalPop) * 100 : 0
Percent(part, total) ==
  IF total = 0 \/ total = NaN THEN Zero
  ELSE IF part = NaN THEN <<NaN, 1>>
  ELSE Rat(part * 100, total)

aggregateUrbanRural(rows) ==
  LET totalPop == SumField(rows, "population")
      totalHH == SumField(rows, "household_count")
      keys == GroupKeys(rows)
      Group(key) == SelectSeq(rows, LAMBDA r : AreaKey(r) = key)
  IN [totals |-> [population |-> totalPop, households |-> totalHH],
      items |-> [i \in 1..Len(keys) |->
         LET pop == SumField(Group(keys[i]), "population")
             hh == SumField(Group(keys[i]), "household_count")
         IN [area_type |-> keys[i],
             population |-> pop,
             household_count |-> hh,
             population_percent |-> Percent(pop, totalPop),
             household_percent |-> Percent(hh, totalHH)]]]

(***************************************************************************)
(* Aggregator: routes/aiInternet.js                                        *)
(***************************************************************************)
\* the rate of one row: the supplied internet_rate_pct when it is a finite
\* number above 0, else withNet / hh * 100 (0 when hh is 0)
RowRate(r) ==
  IF "internet_rate_pct" \in DOMAIN r /\ r.internet_rate_pct > 0
    THEN <<r.internet_rate_pct, 1>>
    ELSE Percent(Num0(r, "households_with_internet"), Num0(r, "household_count"))

\* r.province_name || r.province_code || 'Không rõ'
ProvinceLabel(r) ==
  IF "province_name" \in DOMAIN r THEN r.province_name
  ELSE IF "province_code" \in DOMAIN r THEN r.province_code
  ELSE "Khong ro"

Take(rows, n) == SubSeq(rows, 1, IF Len(rows) < n THEN Len(rows) ELSE n)

RECURSIVE SumRates(_)
SumRates(rows) ==
  IF rows = <<>> THEN Zero ELSE RatAdd(RowRate(rows[1]), SumRates(Tail(rows)))

\* an aggregate whose overall rate is the mean of the rows' rates
MeanOfRates(rows) ==
  [totals |-> [households |-> SumField(rows, "household_count"),
               households_with_internet |-> SumField(rows, "households_with_internet"),
               internet_rate_pct |->
                 IF rows = <<>> THEN Zero
                 ELSE Rat(SumRates(rows)[1], SumRates(rows)[2] * Len(rows))],
   rows |-> <<>>, top5 |-> <<>>, bottom5 |-> <<>>]

aggregateInternetAccess(rows) ==
  LET withRate == [i \in 1..Len(rows) |->
                     [label |-> ProvinceLabel(rows[i]),
                      household_count |-> Num0(rows[i], "household_count"),
                      households_with_internet |-> Num0(rows[i], "households_with_internet"),
                      internet_rate_pct |-> RowRate(rows[i])]]
      rates == [i \in 1..Len(rows) |-> withRate[i].internet_rate_pct]
      totalHH == SumField(rows, "household_count")
      totalWithNet == SumField(rows, "households_with_internet")
  IN [totals |-> [households |-> totalHH,
                  households_with_internet |-> totalWithNet,
                  internet_rate_pct |-> Percent(totalWithNet, totalHH)],
      rows |-> withRate,
      top5 |-> Take(StableSort(withRate, [i \in 1..Len(rows) |-> Neg(rates[i])]), 5),
      bottom5 |-> Take(StableSort(withRate, rates), 5)]

\* Number(p.internet_rate_pct) || (p.household_count ? 100 * withNet / hh : 0)
TrendRate(p) ==
  IF "internet_rate_pct" \in DOMAIN p /\ p.internet_rate_pct # 0
    THEN <<p.internet_rate_pct, 1>>
    ELSE Percent(Num0(p, "households_with_internet"), Num0(p, "household_count"))

\* a classification that counts the thresholds 5 and -5 as strong
InclusiveDirection(delta) ==
  IF ~RatLess(delta, <<5, 1>>) THEN "tang manh"
  ELSE IF RatLess(<<1, 1>>, delta) THEN "tang nhe"
  ELSE IF ~RatLess(<<-5, 1>>, delta) THEN "giam manh"
  ELSE IF RatLess(delta, <<-1, 1>>) THEN "giam nhe"
  ELSE "on dinh"

\* let direction = ...; if (delta > 5) ... else if (delta < -1) ...
Direction(delta) ==
  IF RatLess(<<5, 1>>, delta) THEN "tang manh"
  ELSE IF RatLess(<<1, 1>>, delta) THEN "tang nhe"
  ELSE IF RatLess(delta, <<-5, 1>>) THEN "giam manh"
  ELSE IF RatLess(delta, <<-1, 1>>) THEN "giam nhe"
  ELSE "on dinh"

\* summarizeTrend(trend): null, or the summary of the sorted trend
summarizeTrend(trend) ==
  IF Len(trend) < 2 THEN JNull
  ELSE LET sorted == StableSort(trend, YearKeys(trend))
           first == sorted[1]
           last == sorted[Len(sorted)]
           delta == RatSub(TrendRate(last), TrendRate(first))
           years == Len(sorted) - 1
       IN [first_year |-> first.census_year,
           last_year |-> last.census_year,
           first_rate |-> TrendRate(first),
           last_rate |-> TrendRate(last),
           change |-> delta,
           avg_change_per_year |-> Rat(delta[1], delta[2] * years),
           direction |-> Direction(delta)]

(***************************************************************************)
(* Prompt Composer.  A prompt is a text; a number rendered into it         *)
(* (toLocaleString, toFixed) is a number token.                            *)
(***************************************************************************)
IntTok(n) == NumTok(JNum(n))
RatTok(r) == NumTok(RatJson(r))

Field(row, field, default) == IF field \in DOMAIN row THEN row[field] ELSE default

\* the rendering "label: number" of each entry of pairs, in order
RECURSIVE Render(_)
Render(pairs) ==
  IF pairs = <<>> THEN <<>>
  ELSE <<W(pairs[1][1]), pairs[1][2]>> \o Render(Tail(pairs))

\* the values the internet prompt's output schema lists for
\* insights.trend_direction
TrendDirections == {"tang manh", "tang nhe", "giam", "on dinh", "khong ro"}

\* the closing clause: the output schema and the ban on any other format
SchemaClause(third) ==
  <<W("schema"), W("summary"), W("highlights"), W(third), W("JSON only")>>

\* province ? the province code : nationwide
ScopeLine(province) ==
  IF Truthy(province) THEN <<W("scope:")>> \o province.x ELSE <<W("scope: nationwide")>>

\* r.sex === "M" ? "Nam" : r.sex === "F" ? "Nữ" : r.sex
SexLabel(r) ==
  LET sex == Field(r, "sex", "undefined")
  IN IF sex = "M" THEN "Nam" ELSE IF sex = "F" THEN "Nu" ELSE sex

buildPromptFromData(province, datasets, projection) ==
  LET pbp == datasets.population_by_province
      sorted == StableSort(pbp, [i \in 1..Len(pbp) |-> <<-Num0(pbp[i], "population"), 1>>])
      top == Take(sorted, 5)
      trend == datasets.population_trend
      tSorted == StableSort(trend, YearKeys(trend))
      ages == Take(datasets.age_structure, 6)
      sexes == datasets.sex_ratio
  IN <<W("population report"),
       IF projection # JNull THEN NumTok(GetProp(projection, "projection_years")) ELSE IntTok(5)>>
     \o ScopeLine(province)
     \o (IF pbp # <<>>
           THEN <<W("top 5:")>> \o Render([i \in 1..Len(top) |->
                  <<Field(top[i], "province_name", Field(top[i], "province_code", "undefined")),
                    IntTok(Num0(top[i], "population"))>>])
           ELSE <<W("no population by province")>>)
     \o (IF trend # <<>>
           THEN <<W("trend:"), IntTok(tSorted[1].census_year), IntTok(Num0(tSorted[1], "population")),
                  IntTok(tSorted[Len(tSorted)].census_year),
                  IntTok(Num0(tSorted[Len(tSorted)], "population"))>>
           ELSE <<W("no trend")>>)
     \o (IF ages # <<>>
           THEN <<W("ages:")>> \o Render([i \in 1..Len(ages) |->
                  <<Field(ages[i], "age_group", "Khong ro"), IntTok(Num0(ages[i], "population"))>>])
           ELSE <<W("no age structure")>>)
     \o (IF sexes # <<>>
           THEN <<W("sexes:")>> \o Render([i \in 1..Len(sexes) |->
                  <<SexLabel(sexes[i]), IntTok(Num0(sexes[i], "population"))>>])
           ELSE <<W("no sex ratio")>>)
     \o SchemaClause("projection")

\* one item of the urban/rural aggregate: area, population (share),
\* households (share)
RECURSIVE RenderItems(_)
RenderItems(items) ==
  IF items = <<>> THEN <<>>
  ELSE <<W(items[1].area_type), IntTok(items[1].population), RatTok(items[1].population_percent),
         IntTok(items[1].household_count), RatTok(items[1].household_percent)>>
         \o RenderItems(Tail(items))

buildPromptFromUrbanRuralData(province, agg) ==
  <<W("urban/rural report")>>
  \o ScopeLine(province)
  \o <<W("totals:"), IntTok(agg.totals.population), IntTok(agg.totals.households)>>
  \o (IF agg.items # <<>> THEN <<W("by area:")>> \o RenderItems(agg.items)
      ELSE <<W("no detail by area")>>)
  \o SchemaClause("insights")

RateList(rows) == Render([i \in 1..Len(rows) |-> <<rows[i].label, RatTok(rows[i].internet_rate_pct)>>])

buildPromptFromInternetData(year, province, agg, trendSummary) ==
  <<W("internet report")>>
  \o ScopeLine(province)
  \o <<W("year"), NumTok(year), W("totals:"), IntTok(agg.totals.households),
       IntTok(agg.totals.households_with_internet), RatTok(agg.totals.internet_rate_pct)>>
  \o (IF agg.top5 # <<>> THEN <<W("high:")>> \o RateList(agg.top5) ELSE <<>>)
  \o (IF agg.bottom5 # <<>> THEN <<W("low:")>> \o RateList(agg.bottom5) ELSE <<>>)
  \o (IF trendSummary # JNull
        THEN <<W("trend:"), IntTok(trendSummary.first_year), IntTok(trendSummary.last_year),
               RatTok(trendSummary.first_rate), RatTok(trendSummary.last_rate),
               RatTok(trendSummary.change), RatTok(trendSummary.avg_change_per_year),
               W(trendSummary.direction)>>
        ELSE <<>>)
  \o SchemaClause("insights")

(***************************************************************************)
(* routes/chatbot.js: the question is a text of characters                 *)
(***************************************************************************)
\* one character; the letters d with stroke, a with breve, i and u with
\* tilde are written "d/", "a(", "i~", "u~" ("D/", "A(", "I~", "U~")
C(c) == [k |-> "char", c |-> c]

\* the text of the characters of s
Chars(s) == [i \in 1..Len(s) |-> C(s[i])]

UpperCase ==
  <<"A", "B", "C", "D", "E", "F", "G", "H", "I", "J", "K", "L", "M", "N", "O", "P",
    "Q", "R", "S", "T", "U", "V", "W", "X", "Y", "Z", "D/", "À", "Á", "Ả", "Ã", "Ạ",
    "A(", "Ằ", "Ắ", "Ẳ", "Ẵ", "Ặ", "Â", "Ầ", "Ấ", "Ẩ", "Ẫ", "Ậ", "È", "É", "Ẻ", "Ẽ",
    "Ẹ", "Ê", "Ề", "Ế", "Ể", "Ễ", "Ệ", "Ì", "Í", "Ỉ", "I~", "Ị", "Ò", "Ó", "Ỏ", "Õ",
    "Ọ", "Ô", "Ồ", "Ố", "Ổ", "Ỗ", "Ộ", "Ơ", "Ờ", "Ớ", "Ở", "Ỡ", "Ợ", "Ù", "Ú", "Ủ",
    "U~", "Ụ", "Ư", "Ừ", "Ứ", "Ử", "Ữ", "Ự", "Ỳ", "Ý", "Ỷ", "Ỹ", "Ỵ">>

LowerCase ==
  <<"a", "b", "c", "d", "e", "f", "g", "h", "i", "j", "k", "l", "m", "n", "o", "p",
    "q", "r", "s", "t", "u", "v", "w", "x", "y", "z", "d/", "à", "á", "ả", "ã", "ạ",
    "a(", "ằ", "ắ", "ẳ", "ẵ", "ặ", "â", "ầ", "ấ", "ẩ", "ẫ", "ậ", "è", "é", "ẻ", "ẽ",
    "ẹ", "ê", "ề", "ế", "ể", "ễ", "ệ", "ì", "í", "ỉ", "i~", "ị", "ò", "ó", "ỏ", "õ",
    "ọ", "ô", "ồ", "ố", "ổ", "ỗ", "ộ", "ơ", "ờ", "ớ", "ở", "ỡ", "ợ", "ù", "ú", "ủ",
    "u~", "ụ", "ư", "ừ", "ứ", "ử", "ữ", "ự", "ỳ", "ý", "ỷ", "ỹ", "ỵ">>

Accented ==
  <<"à", "á", "ả", "ã", "ạ", "a(", "ằ", "ắ", "ẳ", "ẵ", "ặ", "â", "ầ", "ấ", "ẩ", "ẫ",
    "ậ", "è", "é", "ẻ", "ẽ", "ẹ", "ê", "ề", "ế", "ể", "ễ", "ệ", "ì", "í", "ỉ", "i~",
    "ị", "ò", "ó", "ỏ", "õ", "ọ", "ô", "ồ", "ố", "ổ", "ỗ", "ộ", "ơ", "ờ", "ớ", "ở",
    "ỡ", "ợ", "ù", "ú", "ủ", "u~", "ụ", "ư", "ừ", "ứ", "ử", "ữ", "ự", "ỳ", "ý", "ỷ",
    "ỹ", "ỵ">>

Unaccented ==
  <<"a", "a", "a", "a", "a", "a", "a", "a", "a", "a", "a", "a", "a", "a", "a", "a",
    "a", "e", "e", "e", "e", "e", "e", "e", "e", "e", "e", "e", "i", "i", "i", "i",
    "i", "o", "o", "o", "o", "o", "o", "o", "o", "o", "o", "o", "o", "o", "o", "o",
    "o", "o", "u", "u", "u", "u", "u", "u", "u", "u", "u", "u", "u", "y", "y", "y",
    "y", "y">>

Digits == <<"0", "1", "2", "3", "4", "5", "6", "7", "8", "9">>

\* the image of character c under the table from -> to, c when from lacks it
MapChar(c, from, to) ==
  IF \E i \in 1..Len(from) : from[i] = c
    THEN to[CHOOSE i \in 1..Len(from) : from[i] = c]
    ELSE c

\* text.toLowerCase()
toLowerCase(text) == [i \in 1..Len(text) |-> C(MapChar(text[i].c, UpperCase, LowerCase))]

\* text.normalize("NFD").replace(/[\u0300-\u036f]/g, ""): every accented
\* letter loses its marks (d with stroke has none to lose)
StripMarks(text) == [i \in 1..Len(text) |-> C(MapChar(text[i].c, Accented, Unaccented))]

\* text.includes(word)
Includes(text, word) ==
  \E i \in 1..(Len(text) - Len(word) + 1) : SubSeq(text, i, i + Len(word) - 1) = word

IsDigit(tok) == \E d \in 1..10 : Digits[d] = tok.c

DigitValue(tok) == (CHOOSE d \in 1..10 : Digits[d] = tok.c) - 1

\* the positions where /20\d{2}/ matches
YearMatches(text) ==
  {i \in 1..(Len(text) - 3) :
     /\ text[i] = C("2")
     /\ text[i + 1] = C("0")
     /\ IsDigit(text[i + 2])
     /\ IsDigit(text[i + 3])}

detectYear(text, defaultYear) ==
  LET m == YearMatches(text)
      i == CHOOSE j \in m : \A k \in m : j <= k
      y == IF m # {}
             THEN 2000 + 10 * DigitValue(text[i + 2]) + DigitValue(text[i + 3])
             ELSE defaultYear
  IN IF y < 2000 \/ y > 2100 THEN defaultYear ELSE y

detectTopic(text) ==
  LET t == toLowerCase(text)
  IN IF \/ Includes(t, Chars(<<"i", "n", "t", "e", "r", "n", "e", "t">>))
        \/ Includes(t, Chars(<<"m", "ạ", "n", "g">>))
        \/ Includes(t, Chars(<<"k", "ế", "t", " ", "n", "ố", "i">>))
       THEN "internet"
     ELSE IF \/ Includes(t, Chars(<<"t", "h", "à", "n", "h", " ", "t", "h", "ị">>))
             \/ Includes(t, Chars(<<"d/", "ô", " ", "t", "h", "ị">>))
             \/ Includes(t, Chars(<<"n", "ô", "n", "g", " ", "t", "h", "ô", "n">>))
             \/ Includes(t, Chars(<<"u", "r", "b", "a", "n">>))
             \/ Includes(t, Chars(<<"r", "u", "r", "a", "l">>))
       THEN "urban_rural"
     ELSE "population"

PROVINCES ==
  <<[code |-> "01",
     alias |-> <<Chars(<<"h", "à", " ", "n", "ộ", "i">>),
                 Chars(<<"h", "a", " ", "n", "o", "i">>),
                 Chars(<<"h", "a", "n", "o", "i">>),
                 Chars(<<"h", "n">>)>>],
    [code |-> "79",
     alias |-> <<Chars(<<"h", "ồ", " ", "c", "h", "í", " ", "m", "i", "n", "h">>),
                 Chars(<<"h", "o", " ", "c", "h", "i", " ", "m", "i", "n", "h">>),
                 Chars(<<"h", "c", "m">>),
                 Chars(<<"s", "à", "i", " ", "g", "ò", "n">>),
                 Chars(<<"s", "a", "i", " ", "g", "o", "n">>)>>],
    [code |-> "48",
     alias |-> <<Chars(<<"d/", "à", " ", "n", "ẵ", "n", "g">>),
                 Chars(<<"d", "a", " ", "n", "a", "n", "g">>),
                 Chars(<<"d", "a", "n", "a", "n", "g">>)>>],
    [code |-> "31",
     alias |-> <<Chars(<<"h", "ả", "i", " ", "p", "h", "ò", "n", "g">>),
                 Chars(<<"h", "a", "i", " ", "p", "h", "o", "n", "g">>),
                 Chars(<<"h", "a", "i", "p", "h", "o", "n", "g">>)>>],
    [code |-> "92",
     alias |-> <<Chars(<<"c", "ầ", "n", " ", "t", "h", "ơ">>),
                 Chars(<<"c", "a", "n", " ", "t", "h", "o">>),
                 Chars(<<"c", "a", "n", "t", "h", "o">>)>>]>>

\* the code of the first province, in table order, one of whose aliases the
\* normalised text includes; "" for null (nationwide)
detectProvince(text) ==
  LET t == StripMarks(toLowerCase(text))
      Hit(p) == \E a \in 1..Len(PROVINCES[p].alias) :
                  Includes(t, StripMarks(toLowerCase(PROVINCES[p].alias[a])))
      hits == {p \in 1..Len(PROVINCES) : Hit(p)}
  IN IF hits = {} THEN ""
     ELSE PROVINCES[CHOOSE p \in hits : \A q \in hits : p <= q].code

\* the datasets loadDatasetsForTopic fetches, in the order it awaits them
TopicDatasets(topic) ==
  CASE topic = "internet" -> <<"internet_access", "internet_trend">>
    [] topic = "urban_rural" -> <<"urban_rural_by_province", "urban_rural_summary">>
    [] OTHER -> <<"population_by_province", "population_trend", "age_structure", "sex_ratio">>

StringFields == {"province_code", "province_name", "age_group", "sex", "area_type"}

\* a row as resp.json() returns it
RowJson(row) ==
  JObj([key \in {K(f) : f \in DOMAIN row} |->
          IF key[1].s \in StringFields THEN JStr(K(row[key[1].s])) ELSE JNum(row[key[1].s])])

\* JSON.stringify(rows).slice(0, 2000); the datasets of the model serialise
\* to fewer than 2000 characters
DatasetText(rows) == JSONStringify(JArr([i \in 1..Len(rows) |-> RowJson(rows[i])]))

\* buildAnswerPrompt({ question, topic, year, datasets, province }); every
\* dataset of the topic is loaded when it runs
buildAnswerPrompt(question, topic, year, datasets, province) ==
  LET names == TopicDatasets(topic)
      RECURSIVE Sections(_)
      Sections(i) ==
        IF i > Len(names) THEN <<>>
        ELSE <<W(names[i])>> \o DatasetText(datasets[names[i]]) \o Sections(i + 1)
      p == CHOOSE q \in 1..Len(PROVINCES) : PROVINCES[q].code = province
  IN <<W("question:")>> \o question
     \o <<W("topic"), W(topic), W("year"), IntTok(year)>>
     \o (IF province # "" THEN <<W("scope:")>> \o PROVINCES[p].alias[1] \o <<W(province)>>
         ELSE <<W("scope: nationwide")>>)
     \o Sections(1)
     \o <<W("task"), W(topic), W("requirements")>>

(***************************************************************************)
(* Inputs: request bodies, datasets of the read endpoints, replies of the  *)
(* completion service                                                      *)
(***************************************************************************)
MaxProjectionYears == 1

NoProps == [key \in {} |-> JUndef]

\* population_trend rows; every growth factor is rational
Trends ==
  { <<>>,
    <<[census_year |-> 2019, population |-> 200]>>,
    <<[census_year |-> 2019, population |-> 200], [census_year |-> 2018, population |-> 100]>>,
    <<[census_year |-> 2018, population |-> 400], [census_year |-> 2020, population |-> 900]>>,
    <<[census_year |-> 2018, population |-> 0], [census_year |-> 2019, population |-> 100]>>,
    <<[census_year |-> 2019, population |-> 200], [census_year |-> 2019, population |-> 100]>> }

ProvinceRows ==
  <<[province_code |-> "01", province_name |-> "Ha Noi", population |-> 300],
    [province_code |-> "79", population |-> 400]>>

AgeRows == <<[age_group |-> "0-14", population |-> 100], [population |-> 50]>>

SexRows == <<[sex |-> "M", population |-> 80], [sex |-> "F", population |-> 70]>>

UrbanRuralRows ==
  <<[area_type |-> "Urban", population |-> 300, household_count |-> 100],
    [area_type |-> "Rural", population |-> 100, household_count |-> 100],
    [population |-> 100]>>

AccessRows ==
  <<[province_code |-> "01", province_name |-> "Ha Noi",
     household_count |-> 100, households_with_internet |-> 40],
    [province_code |-> "79", household_count |-> 50,
     households_with_internet |-> 45, internet_rate_pct |-> 80]>>

\* rows that count no household; the first supplies a rate
NoHouseholdRows ==
  <<[province_code |-> "01", internet_rate_pct |-> 70], [province_code |-> "79"]>>

\* six rows of ten households each, at 50, 90, 50, 20, 90 and 20 percent
TiedRows ==
  <<[province_code |-> "01", household_count |-> 10, households_with_internet |-> 5],
    [province_code |-> "02", household_count |-> 10, households_with_internet |-> 9],
    [province_code |-> "03", household_count |-> 10, households_with_internet |-> 5],
    [province_code |-> "04", household_count |-> 10, households_with_internet |-> 2],
    [province_code |-> "05", household_count |-> 10, households_with_internet |-> 9],
    [province_code |-> "06", household_count |-> 10, households_with_internet |-> 2]>>

InternetTrends ==
  { <<[census_year |-> 2019, internet_rate_pct |-> 50],
      [census_year |-> 2009, household_count |-> 100, households_with_internet |-> 40]>>,
    <<[census_year |-> 2009, internet_rate_pct |-> 60],
      [census_year |-> 2019, internet_rate_pct |-> 58]>> }

\* trends from 50 percent in 2009 to a rate at, next to and between the
\* thresholds of the direction
ThresholdTrends ==
  { <<[census_year |-> 2009, internet_rate_pct |-> 50],
      [census_year |-> 2019, internet_rate_pct |-> last]>> :
        last \in {44, 45, 46, 49, 50, 51, 52, 55, 56} }

\* the property sets a body is put together from: absent, or one value
OptProp(name, values) == {NoProps} \cup {Prop(name, v) : v \in values}

\* year and province: both sent, only the year, or neither
CommonProps ==
  {NoProps, Prop("year", JNum(2024)),
   Merge(Prop("year", JNum(2024)), Prop("province", JStr(K("01"))))}

\* no body; datasets inline, with and without projection_years; no datasets
PopulationBodies ==
  {JUndef}
    \cup {JObj(Merge(Merge(n, Prop("year", JNum(2024))),
                     Prop("datasets", JObj(Merge(Prop("population_trend", JArr(t)), b))))) :
            n \in OptProp("projection_years", {JNum(i) : i \in 0..MaxProjectionYears}),
            t \in Trends,
            b \in OptProp("population_by_province", {JArr(ProvinceRows)})}
    \cup {EmptyObj, JObj(Merge(Prop("year", JNum(2024)), Prop("province", JStr(K("01")))))}

\* rows with texts where numbers belong: population: 'abc' and
\* household_count: '' in the second
TextRows ==
  <<[area_type |-> "Urban", population |-> 300, household_count |-> 100],
    [area_type |-> "Rural", text |-> [population |-> "abc", household_count |-> ""]]>>

UrbanRuralBodies ==
  {JUndef} \cup
  {JObj(Merge(c, d)) :
     c \in CommonProps,
     d \in OptProp("datasets",
             {JObj(u) : u \in OptProp("urban_rural",
                {JArr(<<>>), JArr(UrbanRuralRows), JArr(<<[area_type |-> "Urban"]>>),
                 JArr(<<[area_type |-> "Urban", population |-> 300],
                        [area_type |-> "constructor", population |-> 100]>>),
                 JArr(TextRows)})})}

\* a body with the year and both internet datasets
InternetBody(access, trend) ==
  JObj(Merge(Prop("year", JNum(2024)),
             Prop("datasets", JObj(Merge(Prop("internet_access", JArr(access)),
                                         Prop("internet_trend", JArr(trend)))))))

InternetBodies ==
  {JUndef} \cup
  {InternetBody(AccessRows, t) : t \in ThresholdTrends} \cup
  {JObj(Merge(c, d)) :
     c \in CommonProps,
     d \in OptProp("datasets",
             {JObj(Merge(a, t)) :
                a \in OptProp("internet_access",
                        {JArr(<<>>), JArr(AccessRows), JArr(NoHouseholdRows), JArr(TiedRows),
                         JStr(K("not a sequence"))}),
                t \in OptProp("internet_trend", {JArr(r) : r \in InternetTrends})})}

\* what the read endpoint of a dataset answers with when it succeeds
ServerRows(name) ==
  CASE name = "population_by_province" -> ProvinceRows
    [] name = "population_trend" ->
         <<[census_year |-> 2018, population |-> 100], [census_year |-> 2019, population |-> 200]>>
    [] name = "age_structure" -> AgeRows
    [] name = "sex_ratio" -> SexRows
    [] name = "urban_rural" -> UrbanRuralRows
    [] name = "urban_rural_by_province" -> UrbanRuralRows
    [] name = "urban_rural_summary" -> SubSeq(UrbanRuralRows, 1, 2)
    [] name = "internet_access" -> AccessRows
    [] name = "internet_trend" ->
         <<[census_year |-> 2009, internet_rate_pct |-> 60],
           [census_year |-> 2019, internet_rate_pct |-> 58]>>

FetchOutcomes == {"ok", "notok", "reject"}

\* JSON values a reply may hold
SummaryProps == OptProp("summary", {JStr(<<W("Dan"), W("so"), W("tang")>>), JNum(7)})

HighlightsProps == OptProp("highlights", {JArr(<<JStr(K("Tang"))>>), JStr(K("Tang"))})

ModelInsights == JObj(Prop("trend_direction", JStr(K("giam"))))

ThirdProps ==
  OptProp("insights", {ModelInsights})
    \cup OptProp("projection", {JObj(Prop("base_year", JNum(2019))), JNum(0)})

RawPromptProps == OptProp("raw_prompt", {JStr(K("spoofed"))})

ReplyObjects ==
  {JObj(Merge(Merge(Merge(s, h), t), r)) :
     s \in SummaryProps, h \in HighlightsProps, t \in ThirdProps, r \in RawPromptProps}

ReplyValues ==
  ReplyObjects \cup
  {JNull, JNum(7), JNum(0), JBool(TRUE), JStr(K("Dan so tang")), JStr(<<>>),
   JArr(<<>>), JArr(<<JStr(K("Tang"))>>)}

Prose == <<W("Dan"), W("so"), W("tang"), P(","), IntTok(2), W("%")>>

\* texts JSON.parse rejects: empty, prose, fenced JSON, truncated JSON,
\* JSON followed by prose, a trailing comma
MalformedTexts ==
  { <<>>, Prose,
    <<W("fence json")>> \o JSONStringify(ModelInsights) \o <<W("fence")>>,
    <<P("{"), Q(K("summary")), P(":")>>,
    JSONStringify(ModelInsights) \o Prose,
    <<P("["), Q(K("Tang")), P(","), P("]")>> }

ReplyTexts == MalformedTexts \cup {JSONStringify(v) : v \in ReplyValues}

\* the body of a success response of the completion service
Completion(content) ==
  JObj(Prop("choices", JArr(<<JObj(Prop("message", JObj(Prop("content", content))))>>)))

CompletionBodies ==
  {Completion(JStr(c)) : c \in ReplyTexts}
    \cup {EmptyObj, JObj(Prop("choices", JArr(<<>>))), Completion(JNull)}

UpstreamStatuses == {401, 429, 500}
UpstreamTexts == {K("rate limit exceeded"), <<>>}
ErrorMessages == {K("fetch failed"), K("Unexpected end of JSON input")}

AskPopulation == Chars(<<"d", "a", "n", " ", "s", "o", " ", "2", "0", "1", "9">>)

AskInternet == Chars(<<"I", "n", "t", "e", "r", "n", "e", "t", " ", "H", "à", " ", "N", "ộ", "i">>)

AskRural == Chars(<<"r", "u", "r", "a", "l", " ", "h", "c", "m", " ", "3", "2", "0", "1", "9">>)

AskCity == Chars(<<"D/", "ô", " ", "t", "h", "ị", " ", "1", "9", "9", "9">>)

\* a question about the last year of the plausible range
AskFuture == Chars(<<"2", "1", "0", "0">>)

\* req.body of the Q&A endpoint
Message(role, content) == JObj(Merge(Prop("role", JStr(K(role))), Prop("content", content)))

ChatBodies ==
  {JUndef, EmptyObj} \cup
  {JObj(Prop("messages", JArr(m))) :
     m \in { <<>>,
             <<Message("assistant", JStr(AskInternet))>>,
             <<Message("user", JStr(AskPopulation))>>,
             <<Message("user", JStr(AskFuture))>>,
             <<Message("user", JUndef)>>,
             <<Message("system", JStr(AskCity)), Message("user", JStr(AskInternet))>>,
             <<Message("user", JStr(AskRural)), Message("assistant", JStr(AskInternet))>>,
             <<Message("user", JStr(AskInternet)), Message("user", JStr(AskCity))>> }}

\* completion.choices[0].message.content of the SDK's result
ChatCompletions ==
  {Completion(c) : c \in {JStr(AskPopulation), JStr(Chars(<<" ", "o", "k", " ">>)),
                          JStr(Chars(<<" ">>)), JNull}}
    \cup {EmptyObj, JObj(Prop("choices", JArr(<<>>)))}

(***************************************************************************)
(* State of the server while it handles one request                        *)
(***************************************************************************)
VARIABLES
  apiKey,        \* TRUE iff process.env.OPENAI_API_KEY is set
  authorization, \* req.headers.authorization of the request in progress
  user,          \* req.user: "caller" once requireAuth let the request in
  route,         \* the endpoint of the request in progress, or "none"
  pc,            \* where its handler is: idle, fetch, call, done
  body,          \* req.body
  pending,       \* the dataset fetches issued and not yet settled
  fetched,       \* the responses the awaiting handler has collected so far
  prompt,        \* the handler's local prompt
  aggregate,     \* the Aggregator's result for this request
  payload,       \* the messages sent to the completion service
  sent,          \* the responses sent to the caller, in order
  log,           \* what console.error wrote
  fetches,       \* number of dataset fetches issued
  requests,      \* the dataset fetches issued, each with its Authorization header
  calls,         \* number of requests issued to the completion service
  oResp,         \* what the completion service answered, NoAnswer before
  aggregations,   \* number of Aggregator runs
  store,         \* the database: the committed rows of households and persons
  submit         \* the POST /api/census/submit requests, by number

\* the state of the report and Q&A endpoints
reports == <<apiKey, authorization, user, route, pc, body, pending, fetched, prompt, aggregate,
             payload, sent, log, fetches, requests, calls, oResp, aggregations>>

\* the state of the census endpoints
census == <<store, submit>>

vars == <<apiKey, authorization, user, route, pc, body, pending, fetched, prompt, aggregate,
          payload, sent, log, fetches, requests, calls, oResp, aggregations, store, submit>>

ReportRoutes == {"population", "urban_rural", "internet"}

PopulationDatasets ==
  {"population_by_province", "population_trend", "age_structure", "sex_ratio"}

NoFetched == [name \in {} |-> "ok"]

NoAnswer == [settled |-> FALSE]

\* the number of census submit requests a behaviour holds
MaxSubmits == 2

\* the database before any submission
EmptyStore == [households |-> {}, persons |-> {}]

\* a submit request that has not arrived
NoSubmit ==
  [pc |-> "idle", citizen |-> "none", body |-> [household |-> FALSE, members |-> <<>>],
   client |-> "none", releases |-> 0, begun |-> FALSE,
   written |-> EmptyStore, member |-> 0, sent |-> <<>>]

Init ==
  /\ apiKey \in BOOLEAN
  /\ authorization = [scheme |-> "", token |-> ""]
  /\ user = "none"
  /\ route = "none"
  /\ pc = "idle"
  /\ body = JUndef
  /\ pending = {}
  /\ fetched = NoFetched
  /\ prompt = <<>>
  /\ aggregate = JNull
  /\ payload = <<>>
  /\ sent = <<>>
  /\ log = <<>>
  /\ fetches = 0
  /\ requests = <<>>
  /\ calls = 0
  /\ oResp = NoAnswer
  /\ aggregations = 0
  /\ store = EmptyStore
  /\ submit = [r \in 1..MaxSubmits |-> NoSubmit]

(***************************************************************************)
(* requireAuth, the middleware in front of every report and Q&A handler    *)
(***************************************************************************)
NoHeader == [scheme |-> "", token |-> ""]

\* req.headers.authorization: a scheme and what follows it; the token
\* "valid" is the one jwt.verify accepts
AuthHeaders ==
  {NoHeader} \cup
  [scheme : {"Bearer", "bearer", "Basic"}, token : {"valid", "expired", ""}]

\* a middleware that calls next() whatever the header
LetIn(header) == ""

\* /^Bearer (.+)$/i
BearerMatch(header) == header.scheme \in {"Bearer", "bearer"} /\ header.token # ""

\* the error requireAuth answers 401 with, "" when it calls next()
requireAuth(header) ==
  IF ~BearerMatch(header) THEN "Thieu token xac thuc."
  ELSE IF header.token # "valid" THEN "Token khong hop le hoac da het han."
  ELSE ""

(***************************************************************************)
(* Pieces shared by the report handlers                                    *)
(***************************************************************************)
\* req.body || {}
Body(b) == IF Truthy(b) THEN b ELSE EmptyObj

\* const { name = default } = req.body || {}
Param(b, name, default) ==
  LET v == GetProp(Body(b), name) IN IF v = JUndef THEN default ELSE v

\* what the caller reads: JSON.stringify on the server, JSON.parse on the wire
Wire(v) == JSONParse(JSONStringify(v)).v

\* res.status(status).json(v)
Response(status, v) == [status |-> status, body |-> Wire(v)]

ErrorBody(error, details) ==
  JObj(Merge(Prop("error", JStr(K(error))), Prop("details", details)))

SystemInstruction(r) ==
  CASE r = "population" -> K("You are an assistant that produces concise Vietnamese statistical reports in JSON.")
    [] r = "urban_rural" -> K("Ban la tro ly AI giup phan tich du lieu dan so do thi / nong thon")
    [] r = "internet" -> K("Ban la tro ly AI giup phan tich du lieu ha tang va pho cap Internet")

ConfigError(r) ==
  IF r = "population" THEN "OPENAI_API_KEY not configured on server."
  ELSE "OPENAI_API_KEY chua duoc cau hinh tren server."

InternalError(r) ==
  CASE r = "population" -> "Internal server error"
    [] r = "urban_rural" -> "Internal server error in ai-urban-rural-report"
    [] r = "internet" -> "Internal server error in ai-internet-report"

\* what the catch block of route r answers with for an exception whose
\* message is text: details: err.message on the report routes, a fixed body
\* on the Q&A route
Catch(r, text) ==
  IF r = "chatbot"
    THEN Response(500, JObj(Prop("error", JStr(K("Chatbot backend error")))))
    ELSE Response(500, ErrorBody(InternalError(r), JStr(text)))

\* a server that takes every request for configured
AnyCredential == TRUE

\* if (!OPENAI_KEY) is not taken
HasCredential == apiKey

\* a handler that takes every body to hold a year
NeverMissing(b) == FALSE

\* if (!year) is taken
MissingYear(b) == ~Truthy(Param(b, "year", JUndef))

\* from the Aggregator's result to the await of the completion call: build
\* the prompt, check the credential, issue the one request
ComposeAndCall(r, text, agg, runs) ==
  /\ prompt' = text
  /\ aggregate' = agg
  /\ aggregations' = aggregations + runs
  /\ IF ~HasCredential
       THEN /\ sent' = Append(sent, Response(500, JObj(Prop("error", JStr(K(ConfigError(r)))))))
            /\ pc' = "done"
            /\ UNCHANGED <<payload, calls>>
       ELSE /\ payload' = <<[role |-> "system", content |-> SystemInstruction(r)],
                            [role |-> "user", content |-> text]>>
            /\ calls' = calls + 1
            /\ pc' = "call"
            /\ UNCHANGED sent

\* res.status(status).json({ error }) before anything else ran
Reject(status, error) ==
  /\ sent' = Append(sent, Response(status, JObj(Prop("error", JStr(K(error))))))
  /\ pc' = "done"
  /\ UNCHANGED <<pending, fetched, prompt, aggregate, payload, fetches, requests, calls, aggregations>>

\* fetch(url) of aiPopulation.js and aiUrbanRural.js: no options, so the
\* request carries no Authorization header
fetch(name) == [dataset |-> name, authorization |-> NoHeader]

\* fetchJson of chatbot.js: jwt.sign({ service: 'chatbot' }, JWT_SECRET,
\* { expiresIn: '1m' }) for this call, the n-th of the request; the token
\* verifies under JWT_SECRET until it expires
fetchJson(name, n) ==
  [dataset |-> name,
   authorization |-> [scheme |-> "Bearer", token |-> "valid",
                      service |-> "chatbot", signedFor |-> n, expiresIn |-> 60]]

\* Every read endpoint of routes/reports.js stands behind requireAuth: it
\* answers with a success status only to a request that requireAuth lets in.
ReadEndpointAnswers(request, outcome) ==
  outcome = "ok" => requireAuth(request.authorization) = ""

\* the order of the four fetches in Promise.all
PopulationFetchOrder ==
  <<"population_by_province", "population_trend", "age_structure", "sex_ratio">>

\* a reader that finds no rows under any name
NoRows(data, name) == <<>>

\* the rows of data[name], [] when it is not an array
RowsOf(data, name) ==
  LET v == GetProp(data, name) IN IF v.t = "arr" THEN v.a ELSE <<>>

(***************************************************************************)
(* POST /api/reports/ai-population-report                                  *)
(***************************************************************************)
\* lines 234-275: defensive defaults, projection, prompt, credential, call
PopulationContinue(b, data) ==
  LET d == [name \in PopulationDatasets |-> RowsOf(data, name)]
      projection == computeProjection(d.population_trend,
                                      Param(b, "projection_years", JNum(5)).n)
  IN ComposeAndCall("population",
                    buildPromptFromData(Param(b, "province", JNull), d, projection),
                    projection, 1)

\* safeFetchServerReports' results: the datasets whose response was ok
Results(f) ==
  JObj([key \in {K(name) : name \in {n \in DOMAIN f : f[n] = "ok"}} |->
          JArr(ServerRows(key[1].s))])

PopulationReceive(header, b) ==
  /\ pc = "idle"
  /\ route' = "population"
  /\ body' = b
  /\ LET datasets == Param(b, "datasets", JNull)
     IN IF requireAuth(header) # ""
          THEN Reject(401, requireAuth(header))
          ELSE IF Truthy(datasets)
          THEN /\ PopulationContinue(b, datasets)
               /\ UNCHANGED <<pending, fetched, fetches, requests>>
          ELSE \* Promise.all([fetch, fetch, fetch, fetch]): all four are issued
               /\ pending' = PopulationDatasets
               /\ fetched' = NoFetched
               /\ fetches' = fetches + 4
               /\ requests' = [i \in 1..4 |-> fetch(PopulationFetchOrder[i])]
               /\ pc' = "fetch"
               /\ UNCHANGED <<prompt, aggregate, payload, sent, calls, aggregations>>
  /\ authorization' = header
  /\ user' = IF requireAuth(header) = "" THEN "caller" ELSE "none"
  /\ UNCHANGED <<apiKey, log, oResp>>
  /\ UNCHANGED census

\* One of the four fetches settles.  Promise.all fulfils when the last one
\* fulfils and rejects with the first rejection; the catch then returns the
\* still empty results while the other fetches are in flight.
PopulationFetchSettles(name, outcome) ==
  /\ route = "population"
  /\ name \in pending
  /\ \E i \in 1..Len(requests) :
       requests[i].dataset = name /\ ReadEndpointAnswers(requests[i], outcome)
  /\ pending' = pending \ {name}
  /\ IF pc # "fetch"
       THEN UNCHANGED <<fetched, prompt, aggregate, payload, sent, calls, aggregations, pc>>
       ELSE IF outcome = "reject"
         THEN /\ fetched' = NoFetched
              /\ PopulationContinue(body, EmptyObj)
         ELSE /\ fetched' = [n \in DOMAIN fetched \cup {name} |->
                               IF n = name THEN outcome ELSE fetched[n]]
              /\ IF pending' = {}
                   THEN PopulationContinue(body, Results(fetched'))
                   ELSE UNCHANGED <<prompt, aggregate, payload, sent, calls, aggregations, pc>>
  /\ UNCHANGED <<apiKey, authorization, user, route, body, log, oResp, fetches, requests>>
  /\ UNCHANGED census

(***************************************************************************)
(* POST /api/reports/ai-urban-rural-report                                 *)
(***************************************************************************)
\* lines 166-199: aggregate, prompt, credential, call
UrbanRuralContinue(b, rows) ==
  LET agg == aggregateUrbanRural(rows)
  IN ComposeAndCall("urban_rural",
                    buildPromptFromUrbanRuralData(Param(b, "province", JNull), agg),
                    agg, 1)

UrbanRuralReceive(header, b) ==
  /\ pc = "idle"
  /\ route' = "urban_rural"
  /\ body' = b
  /\ LET datasets == Param(b, "datasets", JNull)
     IN IF requireAuth(header) # ""
          THEN Reject(401, requireAuth(header))
          ELSE IF MissingYear(b)
          THEN Reject(400, "Thieu tham so year trong request body.")
          ELSE IF Truthy(datasets) /\ GetProp(datasets, "urban_rural").t = "arr"
            THEN /\ UrbanRuralContinue(b, GetProp(datasets, "urban_rural").a)
                 /\ UNCHANGED <<pending, fetched, fetches, requests>>
            ELSE /\ pending' = {"urban_rural"}
                 /\ fetched' = NoFetched
                 /\ fetches' = fetches + 1
                 /\ requests' = <<fetch("urban_rural")>>
                 /\ pc' = "fetch"
                 /\ UNCHANGED <<prompt, aggregate, payload, sent, calls, aggregations>>
  /\ authorization' = header
  /\ user' = IF requireAuth(header) = "" THEN "caller" ELSE "none"
  /\ UNCHANGED <<apiKey, log, oResp>>
  /\ UNCHANGED census

\* fetchUrbanRuralFromServer: the rows, [] on a non-success status or a
\* transport error
UrbanRuralFetchSettles(outcome) ==
  /\ route = "urban_rural"
  /\ pc = "fetch"
  /\ ReadEndpointAnswers(requests[1], outcome)
  /\ pending' = {}
  /\ fetched' = [name \in {"urban_rural"} |-> outcome]
  /\ UrbanRuralContinue(body, IF outcome = "ok" THEN ServerRows("urban_rural") ELSE <<>>)
  /\ UNCHANGED <<apiKey, authorization, user, route, body, log, oResp, fetches, requests>>
  /\ UNCHANGED census

(***************************************************************************)
(* POST /api/reports/ai-internet-report                                    *)
(***************************************************************************)
InternetReceive(header, b) ==
  /\ pc = "idle"
  /\ route' = "internet"
  /\ body' = b
  /\ LET datasets == Param(b, "datasets", JNull)
         year == Param(b, "year", JUndef)
         accessRows == IF Truthy(datasets) THEN RowsOf(datasets, "internet_access") ELSE <<>>
         trendRows == IF Truthy(datasets) THEN RowsOf(datasets, "internet_trend") ELSE <<>>
         agg == aggregateInternetAccess(accessRows)
         trendSummary == summarizeTrend(trendRows)
     IN IF requireAuth(header) # ""
          THEN Reject(401, requireAuth(header))
          ELSE IF MissingYear(b)
          THEN Reject(400, "Thieu tham so year trong request body.")
          ELSE IF accessRows = <<>>
            THEN Reject(400, "Thieu datasets.internet_access trong body.")
            ELSE /\ ComposeAndCall("internet",
                      buildPromptFromInternetData(year, Param(b, "province", JNull),
                                                  agg, trendSummary),
                      [agg |-> agg, trendSummary |-> trendSummary], 2)
                 /\ UNCHANGED <<pending, fetched, fetches, requests>>
  /\ authorization' = header
  /\ user' = IF requireAuth(header) = "" THEN "caller" ELSE "none"
  /\ UNCHANGED <<apiKey, log, oResp>>
  /\ UNCHANGED census

(***************************************************************************)
(* Response Normalizer and Report Assembler                                *)
(***************************************************************************)
\* v?.name
Opt(v, name) == IF ThrowsOnAccess(v) THEN JUndef ELSE GetProp(v, name)

\* oJson?.choices?.[0]?.message?.content || ''
Content(oJson) ==
  LET choices == Opt(oJson, "choices")
      first == IF choices.t = "arr" /\ choices.a # <<>> THEN choices.a[1] ELSE JUndef
  IN OrElse(Opt(Opt(first, "message"), "content"), JStr(<<>>))

\* a normalizer that assigns the default whether or not the field is set
AlwaysAssign(v, name, value) == SetProp(v, name, value)

\* if (!v[name]) v[name] = value
FillGap(v, name, value) ==
  IF Truthy(GetProp(v, name)) THEN v ELSE SetProp(v, name, value)

Threw(message) == [threw |-> TRUE, v |-> JStr(K(message))]
Returned(v) == [threw |-> FALSE, v |-> v]

\* aiPopulation.js lines 285-306
NormalizePopulation(oJson, projection, text) ==
  LET assistant == Content(oJson)
      parsed == JSONParse(assistant.x)
      structured ==
        IF parsed.ok THEN parsed.v
        ELSE JObj(Merge(Merge(Merge(Merge(
               Prop("summary", assistant),
               Prop("highlights", JArr(<<>>))),
               Prop("projection", OrElse(projection, JNull))),
               Prop("raw_prompt", JStr(text))),
               Prop("openai_response", oJson)))
  IN IF ThrowsOnAccess(structured)
       THEN Threw("Cannot read properties of null (reading 'projection')")
       ELSE Returned(FillGap(FillGap(structured, "projection", OrElse(projection, JNull)),
                             "raw_prompt", JStr(text)))

\* aiUrbanRural.js lines 210-230, aiInternet.js lines 290-310
NormalizeInsights(oJson, text) ==
  LET content == Content(oJson)
      parsed == JSONParse(content.x)
      wrapped ==
        IF parsed.ok THEN parsed.v
        ELSE JObj(Merge(Merge(
               Prop("summary", content),
               Prop("highlights", JArr(<<>>))),
               Prop("insights", EmptyObj)))
  IN IF ThrowsOnAccess(wrapped)
       THEN Threw("Cannot read properties of null (reading 'insights')")
       ELSE Returned(SetProp(FillGap(FillGap(FillGap(wrapped,
                       "insights", EmptyObj),
                       "summary", JStr(<<>>)),
                       "highlights", JArr(<<>>)),
                       "raw_prompt", JStr(text)))

\* the completion service answers with a success status and the body oJson
ReportCompletionOk(oJson) ==
  /\ pc = "call"
  /\ route \in ReportRoutes
  /\ LET out == IF route = "population"
                  THEN NormalizePopulation(oJson, aggregate, prompt)
                  ELSE NormalizeInsights(oJson, prompt)
     IN /\ sent' = Append(sent,
                     IF out.threw THEN Catch(route, out.v.x) ELSE Response(200, out.v))
        \* the catch block's console.error
        /\ log' = IF out.threw THEN Append(log, [what |-> "error", message |-> out.v.x])
                  ELSE log
  /\ oResp' = [settled |-> TRUE, ok |-> TRUE, status |-> 200, json |-> oJson]
  /\ pc' = "done"
  /\ UNCHANGED <<apiKey, authorization, user, route, body, pending, fetched, prompt, aggregate, payload,
                 fetches, requests, calls, aggregations>>
  /\ UNCHANGED census

\* the completion service answers with a non-success status and the body txt
ReportCompletionNotOk(status, txt) ==
  /\ pc = "call"
  /\ route \in ReportRoutes
  /\ log' = Append(log, [what |-> "OpenAI error", status |-> status, txt |-> txt])
  /\ sent' = Append(sent, Response(502, ErrorBody("OpenAI API error", JStr(txt))))
  /\ oResp' = [settled |-> TRUE, ok |-> FALSE, status |-> status, txt |-> txt]
  /\ pc' = "done"
  /\ UNCHANGED <<apiKey, authorization, user, route, body, pending, fetched, prompt, aggregate, payload,
                 fetches, requests, calls, aggregations>>
  /\ UNCHANGED census

\* the call rejects (transport error), or the success body is not JSON: the
\* await throws into the handler's catch
ReportCompletionFails(message) ==
  /\ pc = "call"
  /\ route \in ReportRoutes
  /\ log' = Append(log, [what |-> "error", message |-> message])
  /\ sent' = Append(sent, Catch(route, message))
  /\ oResp' = [settled |-> TRUE, ok |-> FALSE, status |-> 0, threw |-> message]
  /\ pc' = "done"
  /\ UNCHANGED <<apiKey, authorization, user, route, body, pending, fetched, prompt, aggregate, payload,
                 fetches, requests, calls, aggregations>>
  /\ UNCHANGED census

(***************************************************************************)
(* POST /api/chatbot                                                       *)
(***************************************************************************)
\* req.body?.messages || []
Messages(b) ==
  LET m == Opt(b, "messages") IN IF m.t = "arr" THEN m.a ELSE <<>>

\* a search that stops at the first message with role user
FirstUser(messages) ==
  LET users == {i \in 1..Len(messages) : GetProp(messages[i], "role") = JStr(K("user"))}
  IN IF users = {} THEN 0 ELSE CHOOSE i \in users : \A j \in users : i <= j

\* [...messages].reverse().find(m => m.role === 'user'): its index, 0 if none
LastUser(messages) ==
  LET users == {i \in 1..Len(messages) : GetProp(messages[i], "role") = JStr(K("user"))}
  IN IF users = {} THEN 0 ELSE CHOOSE i \in users : \A j \in users : j <= i

\* String(lastUser.content || '')
Question(b) ==
  LET messages == Messages(b)
  IN OrElse(GetProp(messages[LastUser(messages)], "content"), JStr(<<>>)).x

ChatSystemInstruction == K("Ban la tro ly phan tich du lieu dan so Viet Nam.")

\* lines 71-94: the instruction, the prompt, then the caller's messages
gptMessages(text, messages) ==
  <<[role |-> "system", content |-> ChatSystemInstruction],
    [role |-> "user", content |-> text]>>
  \o [i \in 1..Len(messages) |->
        [role |-> GetProp(messages[i], "role").x,
         content |-> GetProp(messages[i], "content")]]

\* a catch that logs the error and sends nothing
SwallowError(message) ==
  /\ log' = Append(log, [what |-> "chatbot error", message |-> message])
  /\ sent' = sent
  /\ pc' = "done"

\* the handler's catch: console.error, then the fixed 500
ChatbotError(message) ==
  /\ log' = Append(log, [what |-> "chatbot error", message |-> message])
  /\ sent' = Append(sent, Catch("chatbot", message))
  /\ pc' = "done"

ChatbotReceive(header, b) ==
  /\ pc = "idle"
  /\ route' = "chatbot"
  /\ body' = b
  /\ IF requireAuth(header) # ""
       THEN Reject(401, requireAuth(header))
       ELSE IF LastUser(Messages(b)) = 0
         THEN Reject(400, "No user message provided")
         ELSE \* loadDatasetsForTopic awaits its first fetchJson
              /\ pending' = {TopicDatasets(detectTopic(Question(b)))[1]}
              /\ fetched' = NoFetched
              /\ fetches' = fetches + 1
              /\ requests' = Append(requests,
                     fetchJson(TopicDatasets(detectTopic(Question(b)))[1], fetches + 1))
              /\ pc' = "fetch"
              /\ UNCHANGED <<prompt, aggregate, payload, sent, calls, aggregations>>
  /\ authorization' = header
  /\ user' = IF requireAuth(header) = "" THEN "caller" ELSE "none"
  /\ UNCHANGED <<apiKey, log, oResp>>
  /\ UNCHANGED census

\* The awaited fetchJson settles.  A success stores the dataset and moves on
\* to the next fetch, or to the prompt and the completion request after the
\* last one; a non-success status or a transport error throws.
ChatbotFetchSettles(outcome) ==
  /\ route = "chatbot"
  /\ pc = "fetch"
  /\ ReadEndpointAnswers(requests[Len(requests)], outcome)
  /\ LET question == Question(body)
         topic == detectTopic(question)
         year == detectYear(question, 2024)
         province == detectProvince(question)
         names == TopicDatasets(topic)
         done == Cardinality(DOMAIN fetched) + 1
         datasets == [name \in {names[i] : i \in 1..Len(names)} |-> ServerRows(name)]
         text == buildAnswerPrompt(question, topic, year, datasets, province)
     IN IF outcome # "ok"
          THEN /\ ChatbotError("Fetch failed")
               /\ pending' = {}
               /\ UNCHANGED <<fetched, fetches, requests, prompt, payload, calls>>
          ELSE /\ fetched' = [name \in DOMAIN fetched \cup pending |-> "ok"]
               /\ IF done < Len(names)
                    THEN /\ pending' = {names[done + 1]}
                         /\ fetches' = fetches + 1
                         /\ requests' = Append(requests, fetchJson(names[done + 1], fetches + 1))
                         /\ UNCHANGED <<prompt, payload, calls, pc>>
                    ELSE /\ pending' = {}
                         /\ prompt' = text
                         /\ payload' = gptMessages(text, Messages(body))
                         /\ calls' = calls + 1
                         /\ pc' = "call"
                         /\ UNCHANGED <<fetches, requests>>
               /\ UNCHANGED <<sent, log>>
  /\ UNCHANGED <<apiKey, authorization, user, route, body, aggregate, oResp, aggregations>>
  /\ UNCHANGED census

\* content.trim()
RECURSIVE trim(_)
trim(text) ==
  IF text # <<>> /\ text[1] = C(" ") THEN trim(Tail(text))
  ELSE IF text # <<>> /\ text[Len(text)] = C(" ") THEN trim(SubSeq(text, 1, Len(text) - 1))
  ELSE text

\* completion.choices[0]?.message?.content?.trim() || the apology
Reply(completion) ==
  LET first == IF GetProp(completion, "choices").a # <<>>
                 THEN GetProp(completion, "choices").a[1] ELSE JUndef
      content == Opt(Opt(first, "message"), "content")
  IN OrElse(IF ThrowsOnAccess(content) THEN JUndef ELSE JStr(trim(content.x)),
            JStr(K("Xin loi, toi chua co cau tra loi phu hop.")))

\* openai.chat.completions.create resolves with completion; the service
\* answers with success only to a request that carries a credential
ChatCompletionOk(completion) ==
  /\ pc = "call"
  /\ route = "chatbot"
  /\ apiKey
  /\ oResp' = [settled |-> TRUE, ok |-> TRUE, status |-> 200, json |-> completion]
  /\ LET question == Question(body)
     IN IF GetProp(completion, "choices").t # "arr"
          THEN ChatbotError("Cannot read properties of undefined (reading '0')")
          ELSE /\ sent' = Append(sent, Response(200, JObj(Merge(Merge(
                            Prop("reply", Reply(completion)),
                            Prop("topic", JStr(K(detectTopic(question))))),
                            Prop("year", JNum(detectYear(question, 2024)))))))
               /\ pc' = "done"
               /\ UNCHANGED log
  /\ UNCHANGED <<apiKey, authorization, user, route, body, pending, fetched, prompt, aggregate, payload,
                 fetches, requests, calls, aggregations>>
  /\ UNCHANGED census

\* openai.chat.completions.create rejects: a non-success status, a transport
\* error
ChatCompletionFails(message) ==
  /\ pc = "call"
  /\ route = "chatbot"
  /\ oResp' = [settled |-> TRUE, ok |-> FALSE, status |-> 0, threw |-> message]
  /\ ChatbotError(message)
  /\ UNCHANGED <<apiKey, authorization, user, route, body, pending, fetched, prompt, aggregate, payload,
                 fetches, requests, calls, aggregations>>
  /\ UNCHANGED census

\* the request is over; the server takes the next one
NextRequest ==
  /\ pc = "done"
  /\ authorization' = NoHeader
  /\ user' = "none"
  /\ route' = "none"
  /\ pc' = "idle"
  /\ body' = JUndef
  /\ pending' = {}
  /\ fetched' = NoFetched
  /\ prompt' = <<>>
  /\ aggregate' = JNull
  /\ payload' = <<>>
  /\ sent' = <<>>
  /\ log' = <<>>
  /\ fetches' = 0
  /\ requests' = <<>>
  /\ calls' = 0
  /\ oResp' = NoAnswer
  /\ aggregations' = 0
  /\ UNCHANGED apiKey
  /\ UNCHANGED census

Next ==
  \/ \E header \in AuthHeaders, b \in PopulationBodies : PopulationReceive(header, b)
  \/ \E name \in PopulationDatasets, outcome \in FetchOutcomes :
       PopulationFetchSettles(name, outcome)
  \/ \E header \in AuthHeaders, b \in UrbanRuralBodies : UrbanRuralReceive(header, b)
  \/ \E outcome \in FetchOutcomes : UrbanRuralFetchSettles(outcome)
  \/ \E header \in AuthHeaders, b \in InternetBodies : InternetReceive(header, b)
  \/ \E oJson \in CompletionBodies : ReportCompletionOk(oJson)
  \/ \E status \in UpstreamStatuses, txt \in UpstreamTexts :
       ReportCompletionNotOk(status, txt)
  \/ \E message \in ErrorMessages : ReportCompletionFails(message)
  \/ \E header \in AuthHeaders, b \in ChatBodies : ChatbotReceive(header, b)
  \/ \E outcome \in FetchOutcomes : ChatbotFetchSettles(outcome)
  \/ \E completion \in ChatCompletions : ChatCompletionOk(completion)
  \/ \E message \in ErrorMessages : ChatCompletionFails(message)
  \/ NextRequest

Spec == Init /\ [][Next]_vars

\* the handler of the request at hand waits for an outbound call: a dataset
\* fetch or the completion call
Waiting == pc \in {"fetch", "call"}

\* The report and Q&A endpoints under the assumption that every outbound
\* call eventually settles.  While the handler waits, the settling of its
\* calls are the only steps there are and one of them is always possible, so
\* weak fairness of these steps is: the handler does not wait forever
\* without a step.
FairSpec == Spec /\ ([]<>(~Waiting) \/ []<><<Waiting>>_vars)

(***************************************************************************)
(* POST /api/census/submit.  Each await of the handler is a step; the      *)
(* handlers of different requests interleave at their awaits.              *)
(***************************************************************************)
CensusYear == 2024

\* the token's citizenIdId; "none" when authCitizen rejects the header
authCitizen(header) ==
  IF header.scheme = "Bearer" /\ header.token = "valid" THEN "citizen" ELSE "none"

\* the headers of submit requests: none, the citizen's token, an expired
\* token, and the citizen's token under a scheme authCitizen does not take
CitizenHeaders ==
  {NoHeader, [scheme |-> "Bearer", token |-> "valid"],
   [scheme |-> "Bearer", token |-> "expired"], [scheme |-> "bearer", token |-> "valid"]}

\* one member of req.body.members; isHead is the only field the handler
\* branches on
HeadMember == [isHead |-> TRUE]
OtherMember == [isHead |-> FALSE]

\* req.body: household present or not, members a sequence (empty when the
\* request carries none)
SubmitBodies ==
  {[household |-> FALSE, members |-> <<HeadMember>>]} \cup
  {[household |-> TRUE, members |-> m] : m \in {<<>>, <<HeadMember>>, <<OtherMember>>, <<HeadMember, OtherMember>>}}

\* const year = censusYear || new Date().getFullYear()
Year(b) == CensusYear

\* a client that runs every statement in autocommit mode
Autocommit(s) == FALSE

\* the client's session is inside BEGIN ... COMMIT / ROLLBACK
InTransaction(s) == s.begun

\* the rows a statement of request r sees: the committed ones and the ones
\* its own transaction wrote
Visible(r) ==
  [households |-> store.households \cup submit[r].written.households,
   persons |-> store.persons \cup submit[r].written.persons]

\* the row INSERT INTO households adds; the request's number stands for
\* the id the database returns
HouseholdRow(r) == [id |-> r, census_year |-> Year(submit[r].body)]

\* the row INSERT INTO persons adds for member i: citizen_id_id is the
\* citizen's only when member.isHead === true
PersonRow(r, i) ==
  [household_id |-> r, n |-> i,
   citizen_id_id |-> IF submit[r].body.members[i].isHead THEN submit[r].citizen ELSE "null",
   census_year |-> Year(submit[r].body)]

\* SELECT p.id FROM persons p WHERE p.citizen_id_id = $1 AND
\* p.census_year = $2 LIMIT 1
Existing(r) ==
  {p \in Visible(r).persons :
     p.citizen_id_id = submit[r].citizen /\ p.census_year = Year(submit[r].body)}

\* request r changes to s; everything else in the census state stays
Step(r, s) == submit' = [submit EXCEPT ![r] = s]

\* an INSERT of request r succeeds: inside a transaction the rows wait for
\* COMMIT, outside they are committed at once
Insert(r, s, households, persons) ==
  IF InTransaction(submit[r])
    THEN /\ Step(r, [s EXCEPT !.written =
                       [households |-> @.households \cup households,
                        persons |-> @.persons \cup persons]])
         /\ UNCHANGED store
    ELSE /\ Step(r, s)
         /\ store' = [households |-> store.households \cup households,
                      persons |-> store.persons \cup persons]

\* return res.status(status).json(...) inside try, then finally:
\* client.release()
Finish(s, status) ==
  [s EXCEPT !.pc = "done", !.sent = Append(@, status),
            !.client = "released", !.releases = @ + 1]

\* a statement failed: the transaction is aborted and control is in catch,
\* at await client.query('ROLLBACK')
Catch0(s) == [s EXCEPT !.pc = "catch"]

\* the request arrives: authCitizen, then const client = await
\* pool.connect()
SubmitReceive(r, header, b) ==
  /\ submit[r].pc = "idle"
  /\ \A q \in 1..(r - 1) : submit[q].pc # "idle"
  /\ Step(r, IF authCitizen(header) = "none"
               THEN [submit[r] EXCEPT !.pc = "done", !.sent = <<401>>]
               ELSE [submit[r] EXCEPT !.pc = "connect", !.citizen = authCitizen(header),
                                      !.body = b])
  /\ UNCHANGED store

\* pool.connect() resolves; the handler validates and either answers 400 or
\* awaits BEGIN
SubmitConnected(r) ==
  /\ submit[r].pc = "connect"
  /\ LET s == [submit[r] EXCEPT !.client = "held"]
     IN Step(r, IF ~s.body.household \/ s.body.members = <<>>
                  THEN Finish(s, 400)
                  ELSE [s EXCEPT !.pc = "begin"])
  /\ UNCHANGED store

\* await client.query('BEGIN') settles; the handler awaits the SELECT
SubmitBegin(r, ok) ==
  /\ submit[r].pc = "begin"
  /\ Step(r, IF ok THEN [submit[r] EXCEPT !.pc = "select", !.begun = TRUE]
             ELSE Catch0(submit[r]))
  /\ UNCHANGED store

\* the SELECT settles: a row found sends the handler to ROLLBACK and 409,
\* none to the household INSERT
SubmitSelect(r, ok) ==
  /\ submit[r].pc = "select"
  /\ Step(r, IF ~ok THEN Catch0([submit[r] EXCEPT !.written = EmptyStore])
             ELSE IF Existing(r) # {} THEN [submit[r] EXCEPT !.pc = "duplicate"]
             ELSE [submit[r] EXCEPT !.pc = "household"])
  /\ UNCHANGED store

\* the ROLLBACK of the duplicate path settles
SubmitDuplicate(r, ok) ==
  /\ submit[r].pc = "duplicate"
  /\ Step(r, IF ok THEN Finish([submit[r] EXCEPT !.begun = FALSE, !.written = EmptyStore], 409)
             ELSE Catch0([submit[r] EXCEPT !.written = EmptyStore]))
  /\ UNCHANGED store

\* INSERT INTO households settles; the loop over members starts
SubmitHousehold(r, ok) ==
  /\ submit[r].pc = "household"
  /\ IF ok
       THEN Insert(r, [submit[r] EXCEPT !.pc = "person", !.member = 1], {HouseholdRow(r)}, {})
       ELSE /\ Step(r, Catch0([submit[r] EXCEPT !.written = EmptyStore]))
            /\ UNCHANGED store

\* INSERT INTO persons for the member at hand settles; after the last
\* member the handler awaits COMMIT
SubmitPerson(r, ok) ==
  /\ submit[r].pc = "person"
  /\ LET i == submit[r].member
         last == i = Len(submit[r].body.members)
     IN IF ok
          THEN Insert(r, [submit[r] EXCEPT !.pc = IF last THEN "commit" ELSE "person",
                                           !.member = IF last THEN i ELSE i + 1],
                      {}, {PersonRow(r, i)})
          ELSE /\ Step(r, Catch0([submit[r] EXCEPT !.written = EmptyStore]))
               /\ UNCHANGED store

\* COMMIT settles: the transaction's rows are committed and the handler
\* answers 200, or the transaction is aborted
SubmitCommit(r, ok) ==
  /\ submit[r].pc = "commit"
  /\ IF ok
       THEN /\ Step(r, Finish([submit[r] EXCEPT !.begun = FALSE, !.written = EmptyStore], 200))
            /\ store' = Visible(r)
       ELSE /\ Step(r, Catch0([submit[r] EXCEPT !.written = EmptyStore]))
            /\ UNCHANGED store

\* the ROLLBACK of catch settles: 500 and finally, or the ROLLBACK throws
\* out of catch and only finally runs
SubmitCatch(r, ok) ==
  /\ submit[r].pc = "catch"
  /\ LET s == [submit[r] EXCEPT !.begun = FALSE, !.written = EmptyStore]
     IN Step(r, IF ok THEN Finish(s, 500)
                ELSE [s EXCEPT !.pc = "done", !.client = "released", !.releases = @ + 1])
  /\ UNCHANGED store

CensusInit == Init

CensusNext ==
  \/ \E r \in 1..MaxSubmits, header \in CitizenHeaders, b \in SubmitBodies :
       SubmitReceive(r, header, b) /\ UNCHANGED reports
  \/ \E r \in 1..MaxSubmits : SubmitConnected(r) /\ UNCHANGED reports
  \/ \E r \in 1..MaxSubmits, ok \in BOOLEAN : SubmitBegin(r, ok) /\ UNCHANGED reports
  \/ \E r \in 1..MaxSubmits, ok \in BOOLEAN : SubmitSelect(r, ok) /\ UNCHANGED reports
  \/ \E r \in 1..MaxSubmits, ok \in BOOLEAN : SubmitDuplicate(r, ok) /\ UNCHANGED reports
  \/ \E r \in 1..MaxSubmits, ok \in BOOLEAN : SubmitHousehold(r, ok) /\ UNCHANGED reports
  \/ \E r \in 1..MaxSubmits, ok \in BOOLEAN : SubmitPerson(r, ok) /\ UNCHANGED reports
  \/ \E r \in 1..MaxSubmits, ok \in BOOLEAN : SubmitCommit(r, ok) /\ UNCHANGED reports
  \/ \E r \in 1..MaxSubmits, ok \in BOOLEAN : SubmitCatch(r, ok) /\ UNCHANGED reports

CensusSpec == CensusInit /\ [][CensusNext]_vars

(***************************************************************************)
(* Properties of the report and Q&A endpoints                              *)
(***************************************************************************)
\* the request in progress has been answered
Answered == pc = "done" /\ Len(sent) = 1

ReportAnswered == route \in ReportRoutes /\ Answered

ReportSuccess == ReportAnswered /\ sent[1].status = 200

\* the completion service answered the request with a success status
CompletionSucceeded == oResp.settled /\ oResp.ok

\* the text the completion service returned, '' when the body holds none
ReplyText == OrElse(Opt(Opt(
               IF Opt(oResp.json, "choices").t = "arr" /\ Opt(oResp.json, "choices").a # <<>>
                 THEN Opt(oResp.json, "choices").a[1] ELSE JUndef,
               "message"), "content"), JStr(<<>>)).x

\* the text is not JSON at all
Unparseable == ~JSONParse(ReplyText).ok

\* the text is JSON and holds an object
ParsedObject == JSONParse(ReplyText).ok /\ JSONParse(ReplyText).v.t = "obj"

\* the field that holds the deterministic aggregate
ThirdField == IF route = "population" THEN "projection" ELSE "insights"

\* the field name of the response body, undefined when the body lacks it or
\* is not an object
ResponseField(name) == GetProp(sent[1].body, name)

\* the field name of the parsed reply, default when the reply omits it
Supplied(name, default) ==
  IF K(name) \in DOMAIN JSONParse(ReplyText).v.o
    THEN JSONParse(ReplyText).v.o[K(name)] ELSE default

RatesJson(rows) ==
  JArr([i \in 1..Len(rows) |->
     JObj(Merge(Merge(Merge(
       Prop("label", JStr(K(rows[i].label))),
       Prop("household_count", JNum(rows[i].household_count))),
       Prop("households_with_internet", JNum(rows[i].households_with_internet))),
       Prop("internet_rate_pct", RatJson(rows[i].internet_rate_pct))))])

\* the Aggregator's result of this request as the caller would read it
AggregateJson ==
  CASE route = "population" -> Wire(OrElse(aggregate, JNull))
    [] route = "urban_rural" ->
         JObj(Merge(
           Prop("totals", JObj(Merge(
              Prop("population", JNum(aggregate.totals.population)),
              Prop("households", JNum(aggregate.totals.households))))),
           Prop("items", JArr([i \in 1..Len(aggregate.items) |->
              JObj(Merge(Merge(Merge(Merge(
                Prop("area_type", JStr(K(aggregate.items[i].area_type))),
                Prop("population", JNum(aggregate.items[i].population))),
                Prop("household_count", JNum(aggregate.items[i].household_count))),
                Prop("population_percent", RatJson(aggregate.items[i].population_percent))),
                Prop("household_percent", RatJson(aggregate.items[i].household_percent))))]))))
    [] route = "internet" ->
         JObj(Merge(Merge(Merge(
           Prop("totals", JObj(Merge(Merge(
              Prop("households", JNum(aggregate.agg.totals.households)),
              Prop("households_with_internet",
                   JNum(aggregate.agg.totals.households_with_internet))),
              Prop("internet_rate_pct", RatJson(aggregate.agg.totals.internet_rate_pct))))),
           Prop("rows", RatesJson(aggregate.agg.rows))),
           Prop("top5", RatesJson(aggregate.agg.top5))),
           Prop("bottom5", RatesJson(aggregate.agg.bottom5))))

\* C1: every 200 response of a report endpoint holds summary (a string),
\* highlights (a sequence), the insights/projection field and raw_prompt,
\* whatever text the completion service returned.
C1_AllFieldsPresent ==
  ReportSuccess =>
    /\ ResponseField("summary").t = "str"
    /\ ResponseField("highlights").t = "arr"
    /\ ResponseField(ThirdField) # JUndef
    /\ ResponseField("raw_prompt") # JUndef

\* C2: once the completion service has answered a report request with a
\* success status, the request ends in a 200 response whatever the shape of
\* the reply (never a 500).
C2_NoShapeFailure ==
  (ReportAnswered /\ CompletionSucceeded) => sent[1].status = 200

C4_AggregateInjected ==
  (ReportSuccess /\ (Unparseable \/ (ParsedObject /\ Supplied(ThirdField, JUndef) = JUndef))) =>
    ResponseField(ThirdField) = AggregateJson

\* C5: when the reply parses to an object, the 200 response keeps the supplied
\* summary and highlights and fills a missing summary with the empty string,
\* missing highlights with the empty sequence and (urban/rural, internet)
\* missing insights with the empty object.
C5_GapsFilled ==
  (ReportSuccess /\ ParsedObject) =>
    /\ ResponseField("summary") = Supplied("summary", JStr(<<>>))
    /\ ResponseField("highlights") = Supplied("highlights", JArr(<<>>))
    /\ route # "population" => ResponseField("insights") = Supplied("insights", EmptyObj)

\* C6: raw_prompt of every 200 response of a report endpoint is the prompt
\* that was sent, also when the parsed reply holds a raw_prompt of its own.
C6_PromptEchoed ==
  ReportSuccess => ResponseField("raw_prompt") = JStr(prompt)

\* the request got past requireAuth and the handler's validation
Admitted == user = "caller" /\ sent[1].status # 400

\* C7: handling one report or Q&A request issues at most one request to the
\* completion service, and exactly one when the request passes validation
\* and the credential is configured.
C7_ExactlyOneCall ==
  /\ calls <= 1
  /\ (Answered /\ Admitted /\ apiKey) => calls = 1

\* C8 as stated: without the credential an admitted report request is
\* answered with the configuration error, and neither a completion request
\* nor a dataset fetch was issued for it.
C8_NoCallOfAnyKind ==
  (ReportAnswered /\ Admitted /\ ~apiKey) =>
    /\ sent[1] = Response(500, JObj(Prop("error", JStr(K(ConfigError(route))))))
    /\ calls = 0
    /\ fetches = 0

\* C8 amended: without the credential an admitted report request is answered
\* with the configuration error and no request to the completion service is
\* ever issued for it (dataset fetches may have been).
C8_NoCompletionCall ==
  /\ (route \in ReportRoutes /\ ~apiKey) => (calls = 0 /\ payload = <<>> /\ ~oResp.settled)
  /\ (ReportAnswered /\ Admitted /\ ~apiKey) =>
       sent[1] = Response(500, JObj(Prop("error", JStr(K(ConfigError(route))))))

\* the population endpoint rejected for the missing credential after its
\* four dataset fetches
C8_Witness ==
  /\ route = "population"
  /\ ~apiKey
  /\ Answered
  /\ sent[1].status = 500
  /\ fetches = 4
  /\ calls = 0

\* the completion service answered with a non-success status
UpstreamRefused == oResp.settled /\ ~oResp.ok /\ oResp.status # 0

\* C9: when the completion service answers with a non-success status, the
\* report request ends in an upstream error response, distinct from the
\* other errors, that carries the service's status and its body.
C9_StatusAndBodyCarried ==
  (ReportAnswered /\ UpstreamRefused) =>
    /\ sent[1].status \notin {200, 400, 401, 500}
    /\ ResponseField("details") = JStr(oResp.txt)
    /\ \/ sent[1].status = oResp.status
       \/ \E key \in DOMAIN sent[1].body.o : sent[1].body.o[key] = JNum(oResp.status)

\* req.body holds no year
NoYear == body.t # "obj" \/ GetProp(body, "year") = JUndef

\* req.body.datasets.internet_access is missing, not a sequence, or empty
NoAccessRows ==
  \/ body.t # "obj"
  \/ GetProp(body, "datasets").t # "obj"
  \/ GetProp(GetProp(body, "datasets"), "internet_access").t # "arr"
  \/ GetProp(GetProp(body, "datasets"), "internet_access").a = <<>>

\* C10: an urban/rural or internet request without a year, or an internet
\* request without rows of datasets.internet_access, is answered 400 and no
\* aggregator ran, no dataset was fetched, no completion request was issued.
C10_RejectedBeforeWork ==
  (/\ Answered
   /\ user = "caller"
   /\ \/ route \in {"urban_rural", "internet"} /\ NoYear
      \/ route = "internet" /\ NoAccessRows) =>
    /\ sent[1].status = 400
    /\ aggregations = 0
    /\ fetches = 0
    /\ calls = 0

\* the internet endpoint rejected a request that has a year and whose
\* datasets.internet_access is not a sequence
C10_Witness ==
  /\ route = "internet"
  /\ user = "caller"
  /\ Answered
  /\ ~NoYear
  /\ GetProp(GetProp(body, "datasets"), "internet_access").t = "str"
  /\ sent[1].status = 400

\* the datasets whose fetch the population handler has seen succeed
FetchedOk == {n \in DOMAIN fetched : fetched[n] = "ok"}

\* the prompt of the population endpoint over the fetched datasets when the
\* datasets of lost are empty and every other one holds its rows
PromptWithout(lost) ==
  LET d == [n \in PopulationDatasets |-> IF n \in lost THEN <<>> ELSE ServerRows(n)]
      projection == computeProjection(d.population_trend,
                                      Param(body, "projection_years", JNum(5)).n)
  IN buildPromptFromData(Param(body, "province", JNull), d, projection)

\* C11: when one of the several dataset fetches of a request fails, only
\* that dataset becomes empty: the population prompt is composed over every
\* dataset whose fetch had succeeded, and a failing fetch of the Q&A endpoint
\* does not end the request.
C11_FailureIsolated ==
  [][/\ (route = "population" /\ pc = "fetch" /\ pc' # "fetch") =>
          \E lost \in SUBSET (PopulationDatasets \ FetchedOk) : prompt' = PromptWithout(lost)
     /\ (route = "chatbot" /\ pc = "fetch") => pc' # "done"]_vars

\* the request in progress carries a bearer token that jwt.verify accepts
ValidBearer ==
  authorization.scheme \in {"Bearer", "bearer"} /\ authorization.token = "valid"

\* C12: a request to a report or Q&A endpoint without a valid bearer token
\* is answered 401 and causes no dataset fetch, no aggregation and no
\* completion call.
C12_NoTokenNoPipeline ==
  (route # "none" /\ ~ValidBearer) =>
    /\ Answered
    /\ sent[1].status = 401
    /\ fetches = 0
    /\ aggregations = 0
    /\ calls = 0
    /\ pending = {}

\* the Q&A endpoint turned away a request whose token has expired
C12_Witness ==
  /\ route = "chatbot"
  /\ authorization = [scheme |-> "Bearer", token |-> "expired"]
  /\ LastUser(Messages(body)) # 0
  /\ Answered
  /\ sent[1].status = 401

\* the header carries a token signed for the k-th fetch of the request that
\* expires within a minute
FreshCredential(header, k) ==
  /\ header.scheme = "Bearer"
  /\ header.token = "valid"
  /\ "signedFor" \in DOMAIN header
  /\ header.signedFor = k
  /\ header.expiresIn \in 1..60

\* C13: every outbound dataset fetch, from the population report, the
\* urban/rural report and the Q&A endpoint alike, carries an internal
\* credential issued for that single call and short-lived.
C13_EveryFetchCredentialed ==
  \A k \in 1..Len(requests) : FreshCredential(requests[k].authorization, k)

\* the rows the request body carries as datasets[name], none when it carries
\* no such sequence
InlineRows(name) ==
  LET v == GetProp(GetProp(body, "datasets"), name)
  IN IF v.t = "arr" THEN v.a ELSE <<>>

\* an admitted report request whose body carries its datasets: an object of
\* datasets (population), the urban_rural sequence (urban/rural)
SuppliedInline ==
  /\ user = "caller"
  /\ GetProp(body, "datasets").t = "obj"
  /\ \/ route = "population"
     \/ route = "urban_rural" /\ GetProp(GetProp(body, "datasets"), "urban_rural").t = "arr"

\* C14: a population or urban/rural request that supplies its datasets inline
\* issues no dataset fetch, and what it aggregates (and puts in the prompt) is
\* computed from exactly the supplied rows.
C14_InlineUsedVerbatim ==
  SuppliedInline =>
    /\ fetches = 0
    /\ requests = <<>>
    /\ pending = {}
    /\ route = "population" =>
         /\ aggregations = 1
         /\ aggregate = computeProjection(InlineRows("population_trend"),
                                          Param(body, "projection_years", JNum(5)).n)
         /\ prompt = buildPromptFromData(Param(body, "province", JNull),
                       [name \in PopulationDatasets |-> InlineRows(name)], aggregate)
    /\ (route = "urban_rural" /\ GetProp(body, "year") # JUndef) =>
         /\ aggregations = 1
         /\ aggregate = aggregateUrbanRural(InlineRows("urban_rural"))
         /\ prompt = buildPromptFromUrbanRuralData(Param(body, "province", JNull), aggregate)

C14_Witness ==
  /\ route = "urban_rural"
  /\ InlineRows("urban_rural") = UrbanRuralRows
  /\ fetches = 0
  /\ ReportSuccess
  /\ aggregate.totals.population > 0

\* the positions of the messages with role user
UserMessages ==
  {i \in 1..Len(Messages(body)) : GetProp(Messages(body)[i], "role") = JStr(K("user"))}

\* the text of the user message no other user message follows
LatestUserText ==
  LET i == CHOOSE i \in UserMessages : \A j \in UserMessages : j <= i
      content == GetProp(Messages(body)[i], "content")
  IN IF content.t = "str" THEN content.x ELSE <<>>

\* C15: the Q&A endpoint infers topic, year and region from the latest
\* message with role user: the datasets it fetches, the prompt and the
\* {reply, topic, year} it returns carry the values inferred from that
\* message; with no user message it answers 400 and issues no dataset fetch
\* and no completion call.
C15_LatestUserMessage ==
  (route = "chatbot" /\ user = "caller") =>
    IF UserMessages = {}
      THEN /\ Answered
           /\ sent[1].status = 400
           /\ fetches = 0
           /\ requests = <<>>
           /\ calls = 0
      ELSE LET q == LatestUserText
               topic == detectTopic(q)
               year == detectYear(q, 2024)
               names == TopicDatasets(topic)
           IN /\ Len(requests) <= Len(names)
              /\ \A k \in 1..Len(requests) : requests[k].dataset = names[k]
              /\ calls = 1 =>
                   prompt = buildAnswerPrompt(q, topic, year,
                              [name \in {names[i] : i \in 1..Len(names)} |-> ServerRows(name)],
                              detectProvince(q))
              /\ (Answered /\ sent[1].status = 200) =>
                   /\ DOMAIN sent[1].body.o = {K("reply"), K("topic"), K("year")}
                   /\ ResponseField("topic") = JStr(K(topic))
                   /\ ResponseField("year") = JNum(year)

C15_Witness ==
  /\ route = "chatbot"
  /\ Cardinality(UserMessages) = 2
  /\ Answered
  /\ sent[1].status = 200
  /\ ResponseField("year") = JNum(2024)
  /\ ResponseField("topic") # JStr(K(detectTopic(GetProp(Messages(body)[1], "content").x)))

\* the request ended in the handler's catch block
Thrown ==
  /\ Answered
  /\ log # <<>>
  /\ log[Len(log)].what \in {"error", "chatbot error"}

\* C16: the response to a request that ended in an unexpected exception does
\* not depend on the exception: it is the response the same request would
\* get had the exception carried any other message.
C16_FailureIsGeneric ==
  Thrown => \A text \in ErrorMessages : sent[1] = Catch(route, text)

\* the population report computed a projection from the inline trend
Projected ==
  /\ route = "population"
  /\ aggregations = 1
  /\ aggregate # JNull

\* the point of the inline trend a stable sort by year puts first: the
\* earliest year's first row
Earliest ==
  LET t == InlineRows("population_trend")
      i == CHOOSE i \in 1..Len(t) :
             \A j \in 1..Len(t) :
               \/ t[i].census_year < t[j].census_year
               \/ t[i].census_year = t[j].census_year /\ i <= j
  IN t[i]

\* the point the sort puts last: the latest year's last row
Latest ==
  LET t == InlineRows("population_trend")
      i == CHOOSE i \in 1..Len(t) :
             \A j \in 1..Len(t) :
               \/ t[j].census_year < t[i].census_year
               \/ t[i].census_year = t[j].census_year /\ j <= i
  IN t[i]

Span == Latest.census_year - Earliest.census_year

\* the rational a JSON number stands for
NumberOf(v) == IF "r" \in DOMAIN v THEN v.r ELSE <<v.n, 1>>

\* 1 + annual_growth_rate of the projection
Growth == RatAdd(NumberOf(GetProp(aggregate, "annual_growth_rate")), <<1, 1>>)

\* f = (last / first) ^ (1 / span)
CompoundsTo(f, span, first, last) ==
  /\ f[1] >= 0
  /\ IntPow(f[1], span) * first = last * IntPow(f[2], span)

\* p is prev * f rounded to the nearest integer, halves upwards
IsRounded(p, prev, f) ==
  /\ 2 * p * f[2] <= 2 * prev * f[1] + f[2]
  /\ 2 * prev * f[1] + f[2] < 2 * (p + 1) * f[2]

ProjectionYears == Param(body, "projection_years", JNum(5)).n

Series == GetProp(aggregate, "series").a

\* the series has N entries, for the years base_year + 1 .. base_year + N,
\* each the rounded product of the one before (the last population at
\* first) and 1 + rate
SeriesCompounds ==
  /\ GetProp(aggregate, "base_year") = JNum(Latest.census_year)
  /\ Len(Series) = ProjectionYears
  /\ \A i \in 1..Len(Series) :
       /\ GetProp(Series[i], "year") = JNum(Latest.census_year + i)
       /\ IsRounded(GetProp(Series[i], "projected").n,
                    IF i = 1 THEN Num0(Latest, "population")
                    ELSE GetProp(Series[i - 1], "projected").n,
                    Growth)

Grouped == route = "urban_rural" /\ aggregations = 1

RECURSIVE SumPercent(_)
SumPercent(items) ==
  IF items = <<>> THEN Zero
  ELSE RatAdd(items[1].population_percent, SumPercent(Tail(items)))

\* C18: the population_percent values of the groups aggregateUrbanRural
\* returns sum to 100 when the total population is greater than 0, and each
\* is 0 when the total population is 0.
C18_PercentsSumTo100 ==
  Grouped =>
    /\ aggregate.totals.population > 0 => SumPercent(aggregate.items) = <<100, 1>>
    /\ aggregate.totals.population = 0 =>
         \A i \in 1..Len(aggregate.items) : aggregate.items[i].population_percent = Zero

\* the internet report aggregated its rows
Rated == route = "internet" /\ aggregations = 2

\* C19: the overall rate aggregateInternetAccess reports is the sum of
\* households_with_internet over the sum of household_count, times 100,
\* whatever internet_rate_pct the rows supply, and 0 when the household
\* total is 0.
C19_RateFromGrandTotals ==
  Rated =>
    LET rows == InlineRows("internet_access")
        households == SumField(rows, "household_count")
        withInternet == SumField(rows, "households_with_internet")
    IN /\ aggregate.agg.totals.households = households
       /\ aggregate.agg.totals.households_with_internet = withInternet
       /\ aggregate.agg.totals.internet_rate_pct =
            IF households = 0 THEN Zero ELSE Rat(withInternet * 100, households)

\* rows of 100 and 50 households, 40 and 45 with internet, the second
\* supplying 80 as its rate: 85 / 150 * 100, not the mean 60
C19_Witness ==
  /\ Rated
  /\ InlineRows("internet_access") = AccessRows
  /\ aggregate.agg.totals.internet_rate_pct = <<170, 3>>
  /\ aggregate.agg.rows[2].internet_rate_pct = <<80, 1>>

\* the number of rows that come before row i when the rows are put in
\* descending (ascending) order of rate, equal rates in input order
Above(rows, i) ==
  Cardinality({j \in 1..Len(rows) :
    \/ RatLess(rows[i].internet_rate_pct, rows[j].internet_rate_pct)
    \/ rows[i].internet_rate_pct = rows[j].internet_rate_pct /\ j < i})

Below(rows, i) ==
  Cardinality({j \in 1..Len(rows) :
    \/ RatLess(rows[j].internet_rate_pct, rows[i].internet_rate_pct)
    \/ rows[i].internet_rate_pct = rows[j].internet_rate_pct /\ j < i})

\* C20: over n rows, top5 holds the min(5, n) rows of highest rate in
\* descending order and bottom5 the min(5, n) rows of lowest rate in
\* ascending order, rows of equal rate in their input order.
C20_TopAndBottomFive ==
  Rated =>
    LET rows == aggregate.agg.rows
        n == Len(rows)
        m == IF n < 5 THEN n ELSE 5
    IN /\ n = Len(InlineRows("internet_access"))
       /\ Len(aggregate.agg.top5) = m
       /\ Len(aggregate.agg.bottom5) = m
       /\ \A i \in 1..n :
            /\ Above(rows, i) < m => aggregate.agg.top5[Above(rows, i) + 1] = rows[i]
            /\ Below(rows, i) < m => aggregate.agg.bottom5[Below(rows, i) + 1] = rows[i]

\* six rows at 50, 90, 50, 20, 90, 20 percent: top5 is rows 2, 5, 1, 3, 4 and
\* bottom5 rows 4, 6, 1, 3, 2
C20_Witness ==
  /\ Rated
  /\ InlineRows("internet_access") = TiedRows
  /\ [i \in 1..5 |-> aggregate.agg.top5[i].label] = <<"02", "05", "01", "03", "04">>
  /\ [i \in 1..5 |-> aggregate.agg.bottom5[i].label] = <<"04", "06", "01", "03", "02">>

\* the internet report summarized a trend of at least two points
Summarized == Rated /\ aggregate.trendSummary # JNull

\* the row of the inline internet trend with the earliest year (the first of
\* them in input order) and the one with the latest year (the last of them)
EarliestRate ==
  LET t == InlineRows("internet_trend")
      i == CHOOSE i \in 1..Len(t) :
             \A j \in 1..Len(t) :
               \/ t[i].census_year < t[j].census_year
               \/ t[i].census_year = t[j].census_year /\ i <= j
  IN TrendRate(t[i])

LatestRate ==
  LET t == InlineRows("internet_trend")
      i == CHOOSE i \in 1..Len(t) :
             \A j \in 1..Len(t) :
               \/ t[j].census_year < t[i].census_year
               \/ t[i].census_year = t[j].census_year /\ j <= i
  IN TrendRate(t[i])

\* delta = (rate of the latest year) - (rate of the earliest year), times its
\* denominator: an integer of the same sign
Delta == RatSub(LatestRate, EarliestRate)

Over(delta, n) == delta[1] > n * delta[2]
Under(delta, n) == delta[1] < n * delta[2]

\* C21: summarizeTrend classifies delta as strong increase above 5, mild
\* increase in (1, 5], strong decrease below -5, mild decrease in [-5, -1)
\* and stable otherwise.
C21_DirectionThresholds ==
  Summarized =>
    /\ aggregate.trendSummary.change = Delta
    /\ aggregate.trendSummary.direction =
         CASE Over(Delta, 5) -> "tang manh"
           [] Over(Delta, 1) /\ ~Over(Delta, 5) -> "tang nhe"
           [] Under(Delta, -5) -> "giam manh"
           [] Under(Delta, -1) /\ ~Under(Delta, -5) -> "giam nhe"
           [] OTHER -> "on dinh"

\* from 50 to 55 percent: delta = 5 is a mild increase
C21_Witness ==
  /\ Summarized
  /\ Delta = <<5, 1>>
  /\ aggregate.trendSummary.direction = "tang nhe"

\* the number a count field of a row stands for when a missing, empty or
\* non-numeric value counts as 0
CountOf(row, field) == IF field \in DOMAIN row THEN row[field] ELSE 0

RECURSIVE SumOfCounts(_, _)
SumOfCounts(rows, field) ==
  IF rows = <<>> THEN 0 ELSE CountOf(rows[1], field) + SumOfCounts(Tail(rows), field)

\* C22: the reducers count a numeric field that is missing, empty or not
\* numeric as 0: the totals of the urban/rural aggregate are the sums of the
\* rows' numbers, and no total, group sum or percentage is NaN.
C22_InvalidCountsAsZero ==
  Grouped =>
    /\ aggregate.totals.population = SumOfCounts(InlineRows("urban_rural"), "population")
    /\ aggregate.totals.households = SumOfCounts(InlineRows("urban_rural"), "household_count")
    /\ \A i \in 1..Len(aggregate.items) :
         /\ aggregate.items[i].population # NaN
         /\ aggregate.items[i].household_count # NaN
         /\ aggregate.items[i].population_percent[1] # NaN
         /\ aggregate.items[i].household_percent[1] # NaN

(***************************************************************************)
(* Properties of POST /api/census/submit                                   *)
(***************************************************************************)
\* the submit requests authenticated as the citizen that were answered
\* with status
SubmitsAnswered(status) ==
  {r \in 1..MaxSubmits : submit[r].citizen = "citizen" /\ submit[r].sent = <<status>>}

\* the requests that have rows in the committed store
Persisted ==
  {r \in 1..MaxSubmits :
     \/ \E h \in store.households : h.id = r
     \/ \E p \in store.persons : p.household_id = r}

\* C23: for the citizen and the census year at most one submit request
\* succeeds, in every sequence and interleaving and whatever members the
\* requests carry, and only a request that succeeded has rows in the store
C23_OneSubmissionPerCitizenAndYear ==
  /\ Cardinality(SubmitsAnswered(200)) <= 1
  /\ Cardinality(Persisted) <= 1

(***************************************************************************)
(* Properties of the dataset fetches                                       *)
(***************************************************************************)
\* the datasets the request at hand fetches from the read endpoints
Wanted ==
  IF route = "population" THEN PopulationDatasets
  ELSE LET names == TopicDatasets(detectTopic(Question(body)))
       IN {names[i] : i \in 1..Len(names)}

\* the datasets whose fetch has been issued
Issued == {requests[i].dataset : i \in 1..Len(requests)}

\* the request waits for a fetch
Fetching == route \in {"population", "chatbot"} /\ pc = "fetch"

\* the request has composed its prompt from fetched datasets
Composed == route \in {"population", "chatbot"} /\ requests # <<>> /\ prompt # <<>>

\* C24: while a population or Q&A request waits for a dataset fetch, every
\* fetch of the request has been issued, and once the request has composed
\* its prompt no fetch of it is still in flight
C24_FetchesIssuedTogetherAwaitedJointly ==
  /\ Fetching => Issued = Wanted
  /\ Composed => pending = {}

(***************************************************************************)
(* Properties of computeProjection's growth rate                           *)
(***************************************************************************)
\* C25: the annual growth rate is 0 whenever the earliest and the latest
\* trend point are of the same year or the earliest population is not
\* greater than 0, and (last / first) ^ (1 / span) - 1 only otherwise
C25_RateZeroWhenUnguarded ==
  Projected =>
    IF Span = 0 \/ Num0(Earliest, "population") <= 0
      THEN Growth = <<1, 1>>
      ELSE CompoundsTo(Growth, Span, Num0(Earliest, "population"), Num0(Latest, "population"))

(***************************************************************************)
(* Atomicity of a census submit and the release of its client              *)
(***************************************************************************)
\* the committed rows of request r
HouseholdsOf(r) == {h \in store.households : h.id = r}
PersonsOf(r) == {p \in store.persons : p.household_id = r}

\* C26: a submit request has rows in the store only once it was answered
\* with status ok, and then its household row and one person row per member;
\* a request answered 400, 409 or 500, or not answered, has none.  The
\* client acquired for a request is released exactly once by the time the
\* handler is done and never before.
C26_AllOrNothingAndReleasedOnce ==
  \A r \in 1..MaxSubmits :
    /\ IF submit[r].sent = <<200>>
         THEN /\ HouseholdsOf(r) = {HouseholdRow(r)}
              /\ PersonsOf(r) = {PersonRow(r, i) : i \in 1..Len(submit[r].body.members)}
              /\ Cardinality(PersonsOf(r)) = Len(submit[r].body.members)
         ELSE HouseholdsOf(r) = {} /\ PersonsOf(r) = {}
    /\ submit[r].releases =
         IF submit[r].client # "none" /\ submit[r].pc = "done" THEN 1 ELSE 0
    /\ Len(submit[r].sent) <= 1

\* one request failed after its household and its first person were
\* inserted and was answered 500; another committed a household of two
C26_Witness ==
  \E r, q \in 1..MaxSubmits :
    /\ submit[r].sent = <<500>> /\ submit[r].member = 2 /\ submit[r].releases = 1
    /\ submit[q].sent = <<200>> /\ Cardinality(PersonsOf(q)) = 2 /\ submit[q].releases = 1

(***************************************************************************)
(* Properties of detectYear                                                *)
(***************************************************************************)
\* the value of the four digits of text from position i
FourDigits(text, i) ==
  1000 * DigitValue(text[i]) + 100 * DigitValue(text[i + 1])
    + 10 * DigitValue(text[i + 2]) + DigitValue(text[i + 3])

\* the positions where a 4-digit token of text starts: four digits with no
\* digit before and none after, of a value in [2000, 2100]
YearTokens(text) ==
  {i \in 1..(Len(text) - 3) :
     /\ \A k \in 0..3 : IsDigit(text[i + k])
     /\ i > 1 => ~IsDigit(text[i - 1])
     /\ i + 4 <= Len(text) => ~IsDigit(text[i + 4])
     /\ FourDigits(text, i) \in 2000..2100}

\* the first such token's value, the default without one
FirstYearToken(text, defaultYear) ==
  IF YearTokens(text) = {} THEN defaultYear
  ELSE FourDigits(text, CHOOSE i \in YearTokens(text) : \A k \in YearTokens(text) : i <= k)

\* the Q&A endpoint answered a question with {reply, topic, year}
Replied ==
  /\ route = "chatbot"
  /\ UserMessages # {}
  /\ Answered
  /\ sent[1].status = 200

\* C27: the year of an answer is the first 4-digit token of the question
\* with a value in [2000, 2100], both bounds included, and the default year
\* when the question has none; it always lies in [2000, 2100]
C27_FirstYearTokenInRange ==
  Replied =>
    /\ ResponseField("year") = JNum(FirstYearToken(LatestUserText, 2024))
    /\ ResponseField("year").n \in 2000..2100

(***************************************************************************)
(* Properties of the Q&A endpoint's message list                           *)
(***************************************************************************)
\* the Q&A endpoint has composed the message list of its completion call
Listed == route = "chatbot" /\ payload # <<>>

\* C28: the message list starts with the server's fixed instruction under
\* role system and the composed prompt under role user, and none of the
\* messages after them, which carry the caller's content, has role system
C28_OnlyServerInstructionIsSystem ==
  Listed =>
    /\ payload[1] = [role |-> "system", content |-> ChatSystemInstruction]
    /\ payload[2] = [role |-> "user", content |-> prompt]
    /\ \A i \in 3..Len(payload) : payload[i].role # K("system")

(***************************************************************************)
(* Properties of the trend direction and the prompt's output schema        *)
(***************************************************************************)
\* C29: the direction summarizeTrend produces, which the prompt reports, is
\* one of the values the prompt's output schema allows for
\* insights.trend_direction
C29_DirectionInSchema ==
  Summarized => aggregate.trendSummary.direction \in TrendDirections

(***************************************************************************)
(* Every request is answered exactly once                                  *)
(***************************************************************************)
\* the handler of the request at hand has returned
Done == pc = "done"

\* C30: a request to a report or Q&A endpoint never has two responses, has
\* exactly one when its handler has returned and none before, and when every
\* outbound call eventually settles a handler that waits for one eventually
\* returns with its response sent
C30_ExactlyOneResponse ==
  /\ [](Len(sent) <= 1)
  /\ [](Done <=> Len(sent) = 1)
  /\ Waiting ~> (Done /\ Len(sent) = 1)

\* a Q&A request that fetched its four datasets one after another, called
\* the completion service and was answered
C30_Witness ==
  /\ route = "chatbot"
  /\ Done
  /\ Len(requests) = 4
  /\ calls = 1
  /\ Len(sent) = 1
  /\ sent[1].status = 200

=============================================================================
